---------------------------- MODULE Spec2Model ----------------------------
(***************************************************************************)
(* WigdosXP unified save system (src/savesync.js): the serialization codec *)
(* between IndexedDB values and localStorage strings, the IndexedDB <->    *)
(* localStorage sync engine, and the postMessage bridge to the parent      *)
(* frame.                                                                  *)
(*                                                                         *)
(* JavaScript strings are sequences of one-character strings, so that      *)
(* prefix tests, slicing, JSON and base64 are computed character by        *)
(* character.  JavaScript values are records with a field t naming the     *)
(* category.  A thrown exception is the value Throw.                       *)
(***************************************************************************)
EXTENDS Integers, Sequences, FiniteSets, TLC

(***************************************************************************)
(* Strings                                                                 *)
(***************************************************************************)

\* a faulty prefix test, s.indexOf(p) !== -1: p occurs anywhere in s
Contains(s, p) ==
    \E i \in 1..(Len(s) - Len(p) + 1) : SubSeq(s, i, i + Len(p) - 1) = p

\* s.indexOf(p) === 0, s.startsWith(p)
StartsWith(s, p) ==
    /\ Len(s) >= Len(p)
    /\ SubSeq(s, 1, Len(p)) = p

\* s.endsWith(p)
EndsWith(s, p) ==
    /\ Len(s) >= Len(p)
    /\ SubSeq(s, Len(s) - Len(p) + 1, Len(s)) = p

\* s.slice(n), s.substring(n)
Slice(s, n) == SubSeq(s, n + 1, Len(s))

\* s.indexOf(c) for a single character c: 0-based, -1 when absent
IndexOfChar(s, c) ==
    IF \E i \in 1..Len(s) : s[i] = c
    THEN (CHOOSE i \in 1..Len(s) : s[i] = c /\ \A j \in 1..(i - 1) : s[j] # c) - 1
    ELSE -1

\* the elements of a finite set in some fixed order
RECURSIVE SetToSeq(_)
SetToSeq(S) ==
    IF S = {} THEN <<>>
    ELSE LET x == CHOOSE y \in S : TRUE
         IN  <<x>> \o SetToSeq(S \ {x})

DigitChars == <<"0", "1", "2", "3", "4", "5", "6", "7", "8", "9">>

IsDigit(c) == \E i \in 1..10 : DigitChars[i] = c

DigitValue(c) == (CHOOSE i \in 1..10 : DigitChars[i] = c) - 1

\* String(n) for a non-negative integer
RECURSIVE NatToChars(_)
NatToChars(n) ==
    IF n < 10 THEN <<DigitChars[n + 1]>>
    ELSE NatToChars(n \div 10) \o <<DigitChars[(n % 10) + 1]>>

\* String(n), JSON.stringify(n) for an integer
IntToChars(n) == IF n < 0 THEN <<"-">> \o NatToChars(-n) ELSE NatToChars(n)

RECURSIVE DigitsToNat(_)
DigitsToNat(s) ==
    IF s = <<>> THEN 0
    ELSE 10 * DigitsToNat(SubSeq(s, 1, Len(s) - 1)) + DigitValue(s[Len(s)])

AllDigits(s) == s # <<>> /\ \A i \in 1..Len(s) : IsDigit(s[i])

(***************************************************************************)
(* Values                                                                  *)
(***************************************************************************)

Throw == [t |-> "throw"]
Null == [t |-> "null"]
Undefined == [t |-> "undefined"]
Bool(b) == [t |-> "boolean", v |-> b]
Num(n) == [t |-> "number", v |-> n, nan |-> FALSE]
NaN == [t |-> "number", v |-> 0, nan |-> TRUE]
Str(s) == [t |-> "string", v |-> s]
DateOf(n) == [t |-> "Date", v |-> n.v, nan |-> n.nan]
ArrayBuffer(bytes) == [t |-> "ArrayBuffer", bytes |-> bytes]
View(kind, buf, off, len) ==
    [t |-> "view", kind |-> kind, buf |-> buf, off |-> off, len |-> len]
Blob(bytes, type) == [t |-> "Blob", bytes |-> bytes, type |-> type]
Array(elems) == [t |-> "Array", elems |-> elems]
Object(fields) == [t |-> "Object", fields |-> fields]
BigInt(n) == [t |-> "bigint", v |-> n]

Uint8Array == <<"U", "i", "n", "t", "8", "A", "r", "r", "a", "y">>
Uint16Array == <<"U", "i", "n", "t", "1", "6", "A", "r", "r", "a", "y">>
DataView == <<"D", "a", "t", "a", "V", "i", "e", "w">>
OctetStream ==
    <<"a", "p", "p", "l", "i", "c", "a", "t", "i", "o", "n", "/",
      "o", "c", "t", "e", "t", "-", "s", "t", "r", "e", "a", "m">>

\* the view constructors found on globalThis
ViewKinds == {Uint8Array, Uint16Array, DataView}

\* BYTES_PER_ELEMENT of a view constructor
ElementSize(kind) == IF kind = Uint16Array THEN 2 ELSE 1

\* new T(ab): a view over the whole buffer; a RangeError when the buffer's
\* byte length is no multiple of the element size
NewView(kind, ab) ==
    IF Len(ab) % ElementSize(kind) # 0 THEN Throw
    ELSE View(kind, ab, 0, Len(ab))

(***************************************************************************)
(* base64: btoa and atob on byte strings                                   *)
(***************************************************************************)

B64Chars ==
    << "A", "B", "C", "D", "E", "F", "G", "H", "I", "J", "K", "L", "M", "N", "O", "P",
       "Q", "R", "S", "T", "U", "V", "W", "X", "Y", "Z", "a", "b", "c", "d", "e", "f",
       "g", "h", "i", "j", "k", "l", "m", "n", "o", "p", "q", "r", "s", "t", "u", "v",
       "w", "x", "y", "z", "0", "1", "2", "3", "4", "5", "6", "7", "8", "9", "+", "/" >>

IsB64Char(c) == \E i \in 1..64 : B64Chars[i] = c

B64Value(c) == (CHOOSE i \in 1..64 : B64Chars[i] = c) - 1

B64(n) == B64Chars[n + 1]

\* btoa of the binary string whose char codes are the bytes
RECURSIVE Btoa(_)
Btoa(b) ==
    IF Len(b) = 0 THEN <<>>
    ELSE IF Len(b) = 1 THEN
        <<B64(b[1] \div 4), B64((b[1] % 4) * 16), "=", "=">>
    ELSE IF Len(b) = 2 THEN
        <<B64(b[1] \div 4), B64((b[1] % 4) * 16 + b[2] \div 16),
          B64((b[2] % 16) * 4), "=">>
    ELSE
        <<B64(b[1] \div 4), B64((b[1] % 4) * 16 + b[2] \div 16),
          B64((b[2] % 16) * 4 + b[3] \div 64), B64(b[3] % 64)>>
        \o Btoa(SubSeq(b, 4, Len(b)))

\* the bytes of a run of base64 characters, leftover bits dropped
RECURSIVE B64Bytes(_)
B64Bytes(s) ==
    IF Len(s) < 2 THEN <<>>
    ELSE LET a == B64Value(s[1])
             b == B64Value(s[2])
             b1 == a * 4 + b \div 16
         IN  IF Len(s) = 2 THEN <<b1>>
             ELSE LET c == B64Value(s[3])
                      b2 == (b % 16) * 16 + c \div 4
                  IN  IF Len(s) = 3 THEN <<b1, b2>>
                      ELSE <<b1, b2, (c % 4) * 64 + B64Value(s[4])>>
                           \o B64Bytes(SubSeq(s, 5, Len(s)))

\* atob: up to two trailing "=" are dropped when the length is a multiple of
\* four; an InvalidCharacterError when a character is outside the alphabet
\* or the remaining length is 1 modulo 4
Atob(s) ==
    LET n == Len(s)
        pad == IF n % 4 = 0 /\ n >= 2 /\ s[n] = "="
               THEN (IF s[n - 1] = "=" THEN 2 ELSE 1)
               ELSE 0
        d == SubSeq(s, 1, n - pad)
    IN  IF Len(d) % 4 = 1 \/ \E i \in 1..Len(d) : ~IsB64Char(d[i])
        THEN Throw
        ELSE ArrayBuffer(B64Bytes(d))

\* arrayBufferToBase64(buffer)
arrayBufferToBase64(bytes) == Btoa(bytes)

\* base64ToArrayBuffer(base64): an ArrayBuffer, or Throw when atob throws
base64ToArrayBuffer(base64) == Atob(base64)

DataUrlHead == <<"d", "a", "t", "a", ":">>
DataUrlMark == <<";", "b", "a", "s", "e", "6", "4", ",">>

\* FileReader.readAsDataURL(blob)
ReadAsDataURL(blob) ==
    DataUrlHead \o blob.type \o DataUrlMark \o Btoa(blob.bytes)

\* blobToBase64(blob): the data URL after its first comma
blobToBase64(blob) ==
    LET dataUrl == ReadAsDataURL(blob)
        comma == IndexOfChar(dataUrl, ",")
    IN  Slice(dataUrl, comma + 1)

(***************************************************************************)
(* JSON.stringify and JSON.parse                                           *)
(***************************************************************************)

Quote == "\""
Backslash == "\\"

\* the body of a JSON string literal: quote and backslash are escaped
RECURSIVE JsonEscape(_)
JsonEscape(s) ==
    IF s = <<>> THEN <<>>
    ELSE (IF s[1] = Quote \/ s[1] = Backslash THEN <<Backslash, s[1]>> ELSE <<s[1]>>)
         \o JsonEscape(Tail(s))

JsonString(s) == <<Quote>> \o JsonEscape(s) \o <<Quote>>

\* the items of a sequence of strings joined by commas
RECURSIVE JoinComma(_)
JoinComma(items) ==
    IF items = <<>> THEN <<>>
    ELSE IF Len(items) = 1 THEN items[1]
    ELSE items[1] \o <<",">> \o JoinComma(Tail(items))

\* whether JSON.stringify accepts v: a TypeError for a BigInt anywhere in it
RECURSIVE JsonOk(_)
JsonOk(v) ==
    CASE v.t = "Array" -> \A i \in 1..Len(v.elems) : JsonOk(v.elems[i])
      [] v.t = "Object" -> \A k \in DOMAIN v.fields : JsonOk(v.fields[k])
      [] OTHER -> v.t \in {"null", "boolean", "number", "string"}

\* the JSON text of null, a boolean, a number, a string, an array or a plain
\* object; NaN is written as null
RECURSIVE JsonText(_)
JsonText(v) ==
    CASE v.t = "null" -> <<"n", "u", "l", "l">>
      [] v.t = "boolean" ->
            IF v.v THEN <<"t", "r", "u", "e">> ELSE <<"f", "a", "l", "s", "e">>
      [] v.t = "number" -> IF v.nan THEN <<"n", "u", "l", "l">> ELSE IntToChars(v.v)
      [] v.t = "string" -> JsonString(v.v)
      [] v.t = "Array" ->
            <<"[">> \o JoinComma([i \in 1..Len(v.elems) |-> JsonText(v.elems[i])])
            \o <<"]">>
      [] v.t = "Object" ->
            LET keys == SetToSeq(DOMAIN v.fields)
            IN  <<"{">>
                \o JoinComma([i \in 1..Len(keys) |->
                       JsonString(keys[i]) \o <<":">> \o JsonText(v.fields[keys[i]])])
                \o <<"}">>

\* JSON.stringify(v): the string, or Throw
JSONstringify(v) == IF JsonOk(v) THEN Str(JsonText(v)) ELSE Throw

ParseFail == [ok |-> FALSE, val |-> Null, rest |-> <<>>]
ParseOk(v, rest) == [ok |-> TRUE, val |-> v, rest |-> rest]

\* a string literal after its opening quote; acc holds the characters read
RECURSIVE ParseString(_, _)
ParseString(s, acc) ==
    IF s = <<>> THEN ParseFail
    ELSE IF s[1] = Quote THEN ParseOk(Str(acc), Tail(s))
    ELSE IF s[1] = Backslash THEN
        IF Len(s) >= 2 /\ s[2] \in {Quote, Backslash, "/"}
        THEN ParseString(SubSeq(s, 3, Len(s)), Append(acc, s[2]))
        ELSE ParseFail
    ELSE ParseString(Tail(s), Append(acc, s[1]))

\* the length of the run of digits s starts with
RECURSIVE DigitRun(_)
DigitRun(s) == IF s # <<>> /\ IsDigit(s[1]) THEN 1 + DigitRun(Tail(s)) ELSE 0

\* an integer literal: an optional minus, then 0 or a run of digits with no
\* leading zero
ParseNumber(s) ==
    LET neg == s # <<>> /\ s[1] = "-"
        d == IF neg THEN Tail(s) ELSE s
        n == IF d # <<>> /\ d[1] = "0" THEN 1 ELSE DigitRun(d)
    IN  IF n = 0 THEN ParseFail
        ELSE LET m == DigitsToNat(SubSeq(d, 1, n))
             IN  ParseOk(Num(IF neg THEN -m ELSE m), SubSeq(d, n + 1, Len(d)))

RECURSIVE ParseValue(_)
RECURSIVE ParseElems(_, _)
RECURSIVE ParseMembers(_, _)

\* the elements of an array after "[" or after a comma; acc holds those read
ParseElems(s, acc) ==
    LET r == ParseValue(s)
    IN  IF ~r.ok \/ r.rest = <<>> THEN ParseFail
        ELSE IF r.rest[1] = "]" THEN ParseOk(Array(Append(acc, r.val)), Tail(r.rest))
        ELSE IF r.rest[1] = "," THEN ParseElems(Tail(r.rest), Append(acc, r.val))
        ELSE ParseFail

\* the members of an object after "{" or after a comma; a repeated key keeps
\* its last value
ParseMembers(s, acc) ==
    IF s = <<>> \/ s[1] # Quote THEN ParseFail
    ELSE LET k == ParseString(Tail(s), <<>>)
         IN  IF ~k.ok \/ k.rest = <<>> \/ k.rest[1] # ":" THEN ParseFail
             ELSE LET r == ParseValue(Tail(k.rest))
                      f == (k.val.v :> r.val) @@ acc
                  IN  IF ~r.ok \/ r.rest = <<>> THEN ParseFail
                      ELSE IF r.rest[1] = "}" THEN ParseOk(Object(f), Tail(r.rest))
                      ELSE IF r.rest[1] = "," THEN ParseMembers(Tail(r.rest), f)
                      ELSE ParseFail

ParseValue(s) ==
    IF s = <<>> THEN ParseFail
    ELSE IF StartsWith(s, <<"n", "u", "l", "l">>) THEN ParseOk(Null, Slice(s, 4))
    ELSE IF StartsWith(s, <<"t", "r", "u", "e">>) THEN ParseOk(Bool(TRUE), Slice(s, 4))
    ELSE IF StartsWith(s, <<"f", "a", "l", "s", "e">>) THEN ParseOk(Bool(FALSE), Slice(s, 5))
    ELSE IF s[1] = Quote THEN ParseString(Tail(s), <<>>)
    ELSE IF s[1] = "[" THEN
        IF Len(s) >= 2 /\ s[2] = "]" THEN ParseOk(Array(<<>>), Slice(s, 2))
        ELSE ParseElems(Tail(s), <<>>)
    ELSE IF s[1] = "{" THEN
        IF Len(s) >= 2 /\ s[2] = "}" THEN ParseOk(Object(<<>>), Slice(s, 2))
        ELSE ParseMembers(Tail(s), <<>>)
    ELSE ParseNumber(s)

\* JSON.parse(s): the value, or a SyntaxError (Throw)
JSONparse(s) ==
    LET r == ParseValue(s)
    IN  IF r.ok /\ r.rest = <<>> THEN r.val ELSE Throw

(***************************************************************************)
(* The codec: serializeForLocalStorage and deserializeFromLocalStorage     *)
(***************************************************************************)

TagJS == <<"J", "S", ":">>
TagDATE == <<"D", "A", "T", "E", ":">>
TagAB == <<"A", "B", ":">>
TagTA == <<"T", "A", ":">>
TagBL == <<"B", "L", ":">>
TagOBJ == <<"O", "B", "J", ":">>
NullMark == <<"J", "S", ":", "_", "_", "N", "U", "L", "L", "_", "_">>
UndefinedMark ==
    <<"J", "S", ":", "_", "_", "U", "N", "D", "E", "F", "I", "N", "E", "D", "_", "_">>
NaNChars == <<"N", "a", "N">>

\* String(n) for a number: the digits, or NaN
NumberToChars(n) == IF n.nan THEN NaNChars ELSE IntToChars(n.v)

\* Number(s) for a string: 0 for the empty string, the integer for an
\* optional minus and digits, NaN otherwise
NumberOf(s) ==
    IF s = <<>> THEN Num(0)
    ELSE IF AllDigits(s) THEN Num(DigitsToNat(s))
    ELSE IF s[1] = "-" /\ AllDigits(Tail(s)) THEN Num(-DigitsToNat(Tail(s)))
    ELSE NaN

IsThrow(v) == v = Throw

\* serializeForLocalStorage(value): the string the promise resolves with, or
\* Throw when it rejects
RECURSIVE serializeForLocalStorage(_)
serializeForLocalStorage(value) ==
    CASE value.t = "null" -> Str(NullMark)
      [] value.t = "undefined" -> Str(UndefinedMark)
      [] value.t = "Date" -> Str(TagDATE \o NumberToChars(value))
      [] value.t = "ArrayBuffer" -> Str(TagAB \o arrayBufferToBase64(value.bytes))
      [] value.t = "view" ->
            Str(TagTA \o value.kind \o <<":">> \o arrayBufferToBase64(value.buf))
      [] value.t = "Blob" -> Str(TagBL \o blobToBase64(value))
      [] value.t = "Array" ->
            LET out == [i \in 1..Len(value.elems) |->
                            serializeForLocalStorage(value.elems[i])]
            IN  IF \E i \in 1..Len(out) : IsThrow(out[i]) THEN Throw
                ELSE Str(TagOBJ \o JSONstringify(Array(out)).v)
      [] value.t = "Object" ->
            LET out == [k \in DOMAIN value.fields |->
                            serializeForLocalStorage(value.fields[k])]
            IN  IF \E k \in DOMAIN out : IsThrow(out[k]) THEN Throw
                ELSE Str(TagOBJ \o JSONstringify(Object(out)).v)
      [] OTHER ->
            LET json == JSONstringify(value)
            IN  IF IsThrow(json) THEN Throw ELSE Str(TagJS \o json.v)

RECURSIVE deserializeFromLocalStorage(_)
RECURSIVE rev(_)

\* rev(v) inside deserializeFromLocalStorage: every string leaf of the parsed
\* container is deserialized again
rev(v) ==
    CASE v.t = "null" -> Null
      [] v.t = "string" -> deserializeFromLocalStorage(v)
      [] v.t = "Array" ->
            LET o == [i \in 1..Len(v.elems) |-> rev(v.elems[i])]
            IN  IF \E i \in 1..Len(o) : IsThrow(o[i]) THEN Throw ELSE Array(o)
      [] v.t = "Object" ->
            LET o == [p \in DOMAIN v.fields |-> rev(v.fields[p])]
            IN  IF \E p \in DOMAIN o : IsThrow(o[p]) THEN Throw ELSE Object(o)
      [] OTHER -> v

\* deserializeFromLocalStorage(str): str is null or a string; the value
\* returned, or Throw when the call throws
deserializeFromLocalStorage(str) ==
    IF str = Null THEN Null
    ELSE LET s == str.v IN
    IF s = NullMark THEN Null
    ELSE IF s = UndefinedMark THEN Undefined
    ELSE IF StartsWith(s, TagAB) THEN base64ToArrayBuffer(Slice(s, 3))
    ELSE IF StartsWith(s, TagTA) THEN
        LET rest == Slice(s, 3)
            idx == IndexOfChar(rest, ":")
        IN  IF idx = -1 THEN base64ToArrayBuffer(rest)
            ELSE LET ctor == SubSeq(rest, 1, idx)
                     ab == base64ToArrayBuffer(Slice(rest, idx + 1))
                 IN  IF IsThrow(ab) THEN Throw
                     ELSE IF ctor \in ViewKinds /\ ~IsThrow(NewView(ctor, ab.bytes))
                     THEN NewView(ctor, ab.bytes)
                     ELSE ab
    ELSE IF StartsWith(s, TagBL) THEN
        LET ab == base64ToArrayBuffer(Slice(s, 3))
        IN  IF IsThrow(ab) THEN Throw ELSE Blob(ab.bytes, OctetStream)
    ELSE IF StartsWith(s, TagDATE) THEN DateOf(NumberOf(Slice(s, 5)))
    ELSE IF StartsWith(s, TagJS) THEN JSONparse(Slice(s, 3))
    ELSE IF StartsWith(s, TagOBJ) THEN
        LET inner == JSONparse(Slice(s, 4))
        IN  IF IsThrow(inner) THEN Throw ELSE rev(inner)
    ELSE str

(***************************************************************************)
(* Bounds                                                                  *)
(***************************************************************************)

\* stands for the factor 1024 in the size limit 4 * 1024 * 1024
Kilo == 3
\* writes the game makes to IndexedDB while the page runs
MaxAppWrites == 1
\* messages the parent frame sends
MaxHostMsgs == 1
\* IndexedDB requests that fail
MaxFaults == 1
\* export cycles in flight together
MaxExports == 1
\* page loads
MaxLoads == 1
\* longest byte string among the codec inputs
MaxBytes == 3
MaxOverlap == 2
MaxPullMsgs == 3
MaxReplaceMsgs == 2
MaxReruns == 2
MaxSnapshotMsgs == 2

(***************************************************************************)
(* State                                                                   *)
(***************************************************************************)

VARIABLES
    pc,              \* "waiting" for IndexedDB | "running" | "codec" | "scenario"
    isInIframe,      \* WigdosXPSync.isInIframe
    store,           \* the FILE_DATA object store: key -> value
    hasIndex,        \* whether FILE_DATA has the index named timestamp
    flat,            \* localStorage: key -> string
    lastSyncedData,  \* WigdosXPSync.lastSyncedData: <<>> for null, <<payload>>
    exports,         \* exportToLocalStorage calls in flight, oldest first
    imports,         \* importFromLocalStorage calls in flight, oldest first
    exportTimer,     \* the setInterval of IndexedDBSync.initialize is running
    notifyTimer,     \* the setInterval of WigdosXPSync.initialize is running
    hostListener,    \* the listener of setupMessageListeners is registered
    initListener,    \* responseHandler of requestInitialSaveData is registered
    initTimeout,     \* its 5000 ms timer: "none" | "armed" | "fired" | "cleared"
    readySignal,     \* the ready signal: "none" | "scheduled" | "sent"
    reload,          \* window.location.reload: "none" | "scheduled"
    loads,           \* page loads so far; names the initial request's messageId
    outbox,          \* the messages the latest task posted to the parent frame
    hostMsgs,        \* messages the parent frame has sent
    uncaught,        \* errors nothing caught: unhandled rejections
    appWrites,       \* writes the game has made
    atBoot,          \* history: the two stores when the page initialized
    requested,       \* history: messageId -> the setAllLocalStorageData request: has data, the data
    faults,          \* failures injected
    lastExport,      \* history: the export cycle that finished last
    failedSend,      \* history: the payload whose postMessage threw, not posted since,
                     \* and lastSyncedData before it
    exportPair,      \* history: the last two export cycles that ran in sequence
    captures,        \* messageId -> the requestSnapshot request: "pending" while
                     \* html2canvas runs, "answered", "failed" (caught and
                     \* logged), "lost" (the page was reloaded)
    game,            \* the game-start sequence of the earlier variant
    cIn, cMid, cOut, cPc,   \* the codec applied to one input
    idb,             \* the database /_savedata: version (0: none yet), hasStore
    openCall,        \* the openDB call of waitForIndexedDB and its requests
    scen, snap       \* the export / clear / import scenario and what it saw

sysVars ==
    <<pc, isInIframe, store, hasIndex, flat, lastSyncedData, exports, imports,
      exportTimer, notifyTimer, hostListener, initListener, initTimeout,
      readySignal, reload, loads, outbox, hostMsgs, uncaught, appWrites,
      atBoot, requested, faults, lastExport, failedSend, exportPair, captures, game>>
codecVars == <<cIn, cMid, cOut, cPc>>
scenVars == <<scen, snap>>
dbVars == <<idb, openCall>>
vars == <<sysVars, codecVars, scenVars, dbVars>>

(***************************************************************************)
(* CONFIG and localStorage                                                 *)
(***************************************************************************)

\* CONFIG.localStoragePrefix
localStoragePrefix == <<"d", "t">>
\* the suffix of companion timestamp keys
TsSuffix == <<":", ":", "t", "s">>

\* the size limit of exportToLocalStorage, 4 * 1024 * 1024, scaled by Kilo
MAX_LOCALSTORAGE_BYTES == 4 * Kilo * Kilo

\* a faulty localStorage.setItem that drops the other entries
SetItemAlone(f, key, value) == key :> value

\* localStorage.setItem(key, value)
SetItem(f, key, value) == (key :> value) @@ f

\* localStorage.clear()
Cleared == <<>>

\* a faulty restore that drops the entries the data does not name
SetAllOnly(f, data) == data

\* Object.keys(data).forEach(key => localStorage.setItem(key, data[key]))
SetAll(f, data) == data @@ f

\* the key path of the index named timestamp
TimestampField == <<"t", "i", "m", "e", "s", "t", "a", "m", "p">>

\* the timestamp index of the store: primary key -> the value's timestamp,
\* for the values that carry a numeric one; empty without the index
Timestamps(st, indexed) ==
    LET has(k) == /\ st[k].t = "Object"
                  /\ TimestampField \in DOMAIN st[k].fields
                  /\ st[k].fields[TimestampField].t = "number"
    IN  IF indexed
        THEN [k \in {x \in DOMAIN st : has(x)} |-> st[k].fields[TimestampField]]
        ELSE <<>>

(***************************************************************************)
(* WigdosXPSync.notifySaveDataChanged                                      *)
(***************************************************************************)

\* a faulty payload that carries every entry of localStorage
NotifyPayloadAll(f) == f

\* allLocalStorageData: every localStorage entry whose key is non-empty and
\* does not end in ::ts
NotifyPayload(f) ==
    [k \in {x \in DOMAIN f : x # <<>> /\ ~EndsWith(x, TsSuffix)} |-> f[k]]

SaveDataChanged(payload) == [type |-> "saveDataChanged", data |-> payload]

\* a faulty notifySaveDataChanged that does not compare with lastSyncedData
NotifyAlways(inIframe, f, last) == inIframe

\* whether notifySaveDataChanged posts: in an iframe, and the payload is not
\* the one lastSyncedData records.  JSON.stringify of the payload is taken
\* as the payload itself: localStorage's key order is stable.
NotifySends(inIframe, f, last) == inIframe /\ last # <<NotifyPayload(f)>>

\* lastSyncedData after notifySaveDataChanged
NotifyLast(inIframe, f, last) == IF inIframe THEN <<NotifyPayload(f)>> ELSE last

\* the messages notifySaveDataChanged posts
NotifyMsgs(inIframe, f, last) ==
    IF NotifySends(inIframe, f, last) THEN <<SaveDataChanged(NotifyPayload(f))>>
    ELSE <<>>

(***************************************************************************)
(* IndexedDBSync.exportToLocalStorage                                      *)
(***************************************************************************)

\* whether reading the value takes a FileReader read: a Blob is in it
RECURSIVE HasBlob(_)
HasBlob(v) ==
    CASE v.t = "Blob" -> TRUE
      [] v.t = "Array" -> \E i \in 1..Len(v.elems) : HasBlob(v.elems[i])
      [] v.t = "Object" -> \E k \in DOMAIN v.fields : HasBlob(v.fields[k])
      [] OTHER -> FALSE

\* a faulty callback of storePromises that omits the size check
ExportAcceptsAnySize(value) == ~IsThrow(serializeForLocalStorage(value))

\* whether the callback of storePromises returns true for the value: it
\* serializes, and the serialized length is within the limit
ExportAccepts(value) ==
    LET serialized == serializeForLocalStorage(value)
    IN  ~IsThrow(serialized) /\ Len(serialized.v) <= MAX_LOCALSTORAGE_BYTES

\* a faulty callback of storePromises that writes the companion entry and
\* not the data entry
ExportEntryCompanionOnly(f, key, value, timestamps) ==
    IF key \in DOMAIN timestamps
    THEN SetItem(f, localStoragePrefix \o key \o TsSuffix,
                 NumberToChars(timestamps[key]))
    ELSE f

\* localStorage after the callback of storePromises has run for one key
ExportEntry(f, key, value, timestamps) ==
    LET localStorageKey == localStoragePrefix \o key
        serialized == serializeForLocalStorage(value)
        f1 == SetItem(f, localStorageKey, serialized.v)
    IN  IF ~ExportAccepts(value) THEN f
        ELSE IF key \in DOMAIN timestamps
        THEN SetItem(f1, localStorageKey \o TsSuffix,
                     NumberToChars(timestamps[key]))
        ELSE f1

\* localStorage after the callback has run for each key of the sequence
RECURSIVE ExportEntries(_, _, _, _)
ExportEntries(f, keys, data, timestamps) ==
    IF keys = <<>> THEN f
    ELSE ExportEntries(ExportEntry(f, keys[1], data[keys[1]], timestamps),
                       Tail(keys), data, timestamps)

\* a call of exportToLocalStorage in flight.  phase "open": waiting for
\* getAllFromIndexedDB; "encode": waiting for the Blob reads of pending
ExportCycle(origin) ==
    [origin |-> origin, phase |-> "open", data |-> <<>>, timestamps |-> <<>>,
     pending |-> {}, follows |-> FALSE, storeQuiet |-> TRUE, flatQuiet |-> TRUE]

\* a faulty count: the keys of the snapshot that localStorage did not hold
SuccessCountFresh(data) ==
    Cardinality({k \in DOMAIN data : (localStoragePrefix \o k) \notin DOMAIN flat})

\* a faulty count: every key of the snapshot
SuccessCountAll(data) == Cardinality(DOMAIN data)

\* successCount: the keys of the snapshot whose callback returned true
SuccessCount(data) == Cardinality({k \in DOMAIN data : ExportAccepts(data[k])})

\* history kept with a finished export cycle: whether it resolved, the count
\* it resolved with, the saveDataChanged messages it posted, the keys of its
\* snapshot, and whether the store and localStorage were left alone (by the
\* game and by the parent frame) since it started
NoExport ==
    [valid |-> FALSE, resolved |-> FALSE, count |-> 0, sent |-> 0, keys |-> {},
     over |-> {}, storeQuiet |-> FALSE, flatQuiet |-> FALSE]

NoPair == [valid |-> FALSE, sends |-> 0, storeQuiet |-> FALSE, flatQuiet |-> FALSE]

\* the keys of a snapshot whose value serializes to more than the limit
OverLimit(data) ==
    {k \in DOMAIN data :
        /\ ~IsThrow(serializeForLocalStorage(data[k]))
        /\ Len(serializeForLocalStorage(data[k]).v) > MAX_LOCALSTORAGE_BYTES}

\* exports with a new call appended; the calls in flight now overlap it
StartExport(exps, origin) ==
    Append([i \in 1..Len(exps) |-> [exps[i] EXCEPT !.follows = FALSE]],
           [ExportCycle(origin) EXCEPT !.follows = (exps = <<>> /\ lastExport.valid)])

\* a sequence without its i-th element
RemoveAt(seq, i) == SubSeq(seq, 1, i - 1) \o SubSeq(seq, i + 1, Len(seq))

\* the history variables after a write to the object store
StoreTouched(exps) == [i \in 1..Len(exps) |-> [exps[i] EXCEPT !.storeQuiet = FALSE]]

\* the history variables after the parent frame's data is written to localStorage
FlatTouched(exps) == [i \in 1..Len(exps) |-> [exps[i] EXCEPT !.flatQuiet = FALSE]]

\* the history variables after an export call changed localStorage to f
FlatWritten(exps, f) == IF f = flat THEN exps ELSE FlatTouched(exps)

\* a faulty exportToLocalStorage that notifies without awaiting storePromises
FlatBeforeWrites(before, after) == before

\* the localStorage notifySaveDataChanged reads when exportToLocalStorage
\* calls it: Promise.all(storePromises) has been awaited, so the one after
\* the writes of the callbacks
FlatAtNotify(before, after) == after

\* exportToLocalStorage from the point where every callback of storePromises
\* has settled: resolve(successCount), then notifySaveDataChanged(), then the
\* caller's continuation (the startup chain starts the periodic timer).  c is
\* the call, f is localStorage after the writes of this step; with an empty
\* snapshot the call resolves 0 and returns before the notification.
ExportFinish(i, c, f) ==
    LET notifies == DOMAIN c.data # {}
        seen == FlatAtNotify(flat, f)
        msgs == IF notifies THEN NotifyMsgs(isInIframe, seen, lastSyncedData) ELSE <<>>
    IN  /\ flat' = f
        /\ lastSyncedData' =
              IF notifies THEN NotifyLast(isInIframe, seen, lastSyncedData)
              ELSE lastSyncedData
        /\ failedSend' = IF msgs # <<>> THEN <<>> ELSE failedSend
        /\ outbox' = msgs
        /\ exports' = RemoveAt(FlatWritten(exports, f), i)
        /\ exportTimer' = (exportTimer \/ c.origin = "startup")
        /\ lastExport' =
              [valid |-> TRUE, resolved |-> TRUE, count |-> SuccessCount(c.data),
               sent |-> Len(msgs), keys |-> DOMAIN c.data, over |-> OverLimit(c.data),
               storeQuiet |-> c.storeQuiet, flatQuiet |-> c.flatQuiet]
        /\ exportPair' =
              IF c.follows
              THEN [valid |-> TRUE, sends |-> lastExport.sent + Len(msgs),
                    storeQuiet |-> lastExport.storeQuiet,
                    flatQuiet |-> lastExport.flatQuiet]
              ELSE NoPair

\* the export calls that may be in flight at once: MaxExports, and
\* MaxOverlap where overlapping calls are studied
ExportsInFlight == IF scen = "overlap" THEN MaxOverlap ELSE MaxExports

\* the periodic timer of IndexedDBSync.initialize fires
ExportTick ==
    /\ pc = "running"
    /\ exportTimer
    /\ Len(exports) < ExportsInFlight
    /\ exports' = StartExport(exports, "timer")
    /\ outbox' = <<>>
    /\ UNCHANGED <<pc, isInIframe, store, hasIndex, flat, lastSyncedData, failedSend,
                   imports, exportTimer, notifyTimer, hostListener,
                   initListener, initTimeout, readySignal, reload, loads,
                   hostMsgs, uncaught, appWrites, atBoot, requested, faults,
                   lastExport, exportPair, captures, game, codecVars, dbVars, scenVars>>

\* getAllFromIndexedDB resolves and the callbacks of storePromises run: the
\* entries without a Blob are written at once (their awaits are microtasks),
\* the others wait for their FileReader.  The keys of one snapshot map to
\* distinct localStorage keys here, so the order of the writes is immaterial.
ExportRead(i) ==
    /\ pc \in {"running", "scenario"}
    /\ i \in 1..Len(exports)
    /\ exports[i].phase = "open"
    /\ LET timestamps == Timestamps(store, hasIndex)
           now == {k \in DOMAIN store : ~HasBlob(store[k])}
           later == DOMAIN store \ now
           f == ExportEntries(flat, SetToSeq(now), store, timestamps)
           c == [exports[i] EXCEPT !.phase = "encode", !.data = store,
                                   !.timestamps = timestamps, !.pending = later]
       IN  IF later = {} THEN ExportFinish(i, c, f)
           ELSE /\ flat' = f
                /\ exports' = [FlatWritten(exports, f) EXCEPT ![i] = c]
                /\ outbox' = <<>>
                /\ UNCHANGED <<lastSyncedData, failedSend, exportTimer, lastExport,
                               exportPair>>
    /\ UNCHANGED <<pc, isInIframe, store, hasIndex, imports, notifyTimer,
                   hostListener, initListener, initTimeout, readySignal, reload,
                   loads, hostMsgs, uncaught, appWrites, atBoot, requested, faults,
                   captures, game, codecVars, dbVars, scenVars>>

\* the FileReader of one pending entry is done and its callback continues
ExportBlobDone(i, k) ==
    /\ pc \in {"running", "scenario"}
    /\ i \in 1..Len(exports)
    /\ exports[i].phase = "encode"
    /\ k \in exports[i].pending
    /\ LET c == [exports[i] EXCEPT !.pending = @ \ {k}]
           f == ExportEntry(flat, k, c.data[k], c.timestamps)
       IN  IF c.pending = {} THEN ExportFinish(i, c, f)
           ELSE /\ flat' = f
                /\ exports' = [FlatWritten(exports, f) EXCEPT ![i] = c]
                /\ outbox' = <<>>
                /\ UNCHANGED <<lastSyncedData, failedSend, exportTimer, lastExport,
                               exportPair>>
    /\ UNCHANGED <<pc, isInIframe, store, hasIndex, imports, notifyTimer,
                   hostListener, initListener, initTimeout, readySignal, reload,
                   loads, hostMsgs, uncaught, appWrites, atBoot, requested, faults,
                   captures, game, codecVars, dbVars, scenVars>>

\* getAllFromIndexedDB rejects (openDB, the transaction or a cursor fails):
\* the call rejects, its caller logs the error; the startup chain ends in
\* its catch and starts no timer
ExportReadFail(i) ==
    /\ pc = "running"
    /\ i \in 1..Len(exports)
    /\ exports[i].phase = "open"
    /\ faults < MaxFaults
    /\ faults' = faults + 1
    /\ exports' = RemoveAt(exports, i)
    /\ lastExport' = [NoExport EXCEPT !.valid = TRUE,
                                      !.storeQuiet = exports[i].storeQuiet,
                                      !.flatQuiet = exports[i].flatQuiet]
    /\ exportPair' =
          IF exports[i].follows
          THEN [valid |-> TRUE, sends |-> lastExport.sent,
                storeQuiet |-> lastExport.storeQuiet,
                flatQuiet |-> lastExport.flatQuiet]
          ELSE NoPair
    /\ outbox' = <<>>
    /\ UNCHANGED <<pc, isInIframe, store, hasIndex, flat, lastSyncedData, failedSend,
                   imports, exportTimer, notifyTimer, hostListener,
                   initListener, initTimeout, readySignal, reload, loads,
                   hostMsgs, uncaught, appWrites, atBoot, requested, captures, game, codecVars, dbVars,
                   scenVars>>

\* the periodic timer of WigdosXPSync.initialize fires: 5000 ms, set in the
\* task that set the 1000 ms and the 5000 ms timeouts, so after both
NotifyTick ==
    /\ pc = "running"
    /\ notifyTimer
    /\ readySignal = "sent"
    /\ initTimeout # "armed"
    /\ lastSyncedData' = NotifyLast(isInIframe, flat, lastSyncedData)
    /\ outbox' = NotifyMsgs(isInIframe, flat, lastSyncedData)
    /\ failedSend' = IF NotifySends(isInIframe, flat, lastSyncedData) THEN <<>>
                     ELSE failedSend
    /\ UNCHANGED <<pc, isInIframe, store, hasIndex, flat, exports, imports,
                   exportTimer, notifyTimer, hostListener, initListener,
                   initTimeout, readySignal, reload, loads, hostMsgs, uncaught,
                   appWrites, atBoot, requested, faults, lastExport, exportPair,
                   captures, game, codecVars, dbVars, scenVars>>

\* a faulty tick whose error ends the interval
NotifyTickFailStopsTimer ==
    /\ pc = "running"
    /\ notifyTimer
    /\ readySignal = "sent"
    /\ initTimeout # "armed"
    /\ faults < MaxFaults
    /\ NotifySends(isInIframe, flat, lastSyncedData)
    /\ faults' = faults + 1
    /\ lastSyncedData' = NotifyLast(isInIframe, flat, lastSyncedData)
    /\ failedSend' = <<[payload |-> NotifyPayload(flat), last |-> lastSyncedData]>>
    /\ outbox' = <<>>
    /\ notifyTimer' = FALSE
    /\ UNCHANGED <<pc, isInIframe, store, hasIndex, flat, exports, imports,
                   exportTimer, hostListener, initListener,
                   initTimeout, readySignal, reload, loads, hostMsgs, uncaught,
                   appWrites, atBoot, requested, lastExport, exportPair,
                   captures, game, codecVars, dbVars, scenVars>>

\* the same tick when window.parent.postMessage throws: lastSyncedData was
\* assigned before the call, the catch of notifySaveDataChanged logs
NotifyTickFail ==
    /\ pc = "running"
    /\ notifyTimer
    /\ readySignal = "sent"
    /\ initTimeout # "armed"
    /\ faults < MaxFaults
    /\ NotifySends(isInIframe, flat, lastSyncedData)
    /\ faults' = faults + 1
    /\ lastSyncedData' = NotifyLast(isInIframe, flat, lastSyncedData)
    /\ failedSend' = <<[payload |-> NotifyPayload(flat), last |-> lastSyncedData]>>
    /\ outbox' = <<>>
    /\ UNCHANGED <<pc, isInIframe, store, hasIndex, flat, exports, imports,
                   exportTimer, notifyTimer, hostListener, initListener,
                   initTimeout, readySignal, reload, loads, hostMsgs, uncaught,
                   appWrites, atBoot, requested, lastExport, exportPair,
                   captures, game, codecVars, dbVars, scenVars>>

(***************************************************************************)
(* IndexedDBSync.importFromLocalStorage                                    *)
(***************************************************************************)

\* saveToIndexedDB(key, data): store.put(data, key)
saveToIndexedDB(st, key, data) == (key :> data) @@ st

\* the localStorage keys the loop of importFromLocalStorage takes: non-empty,
\* not ending in ::ts, starting with the prefix
ImportKeys(f) ==
    {localKey \in DOMAIN f :
        /\ localKey # <<>>
        /\ ~EndsWith(localKey, TsSuffix)
        /\ StartsWith(localKey, localStoragePrefix)}

\* a faulty loop that puts the string itself when deserializing it throws
ImportTodoRaw(f) ==
    [indexedDBKey \in {Slice(localKey, Len(localStoragePrefix)) : localKey \in ImportKeys(f)}
        |-> LET dataString == Str(f[localStoragePrefix \o indexedDBKey])
                data == deserializeFromLocalStorage(dataString)
            IN  IF IsThrow(data) THEN dataString ELSE data]

\* the puts the loop issues: IndexedDB key -> deserialized value, for every
\* taken key whose string deserializes without throwing
ImportTodo(f) ==
    LET ok == {localKey \in ImportKeys(f) :
                  ~IsThrow(deserializeFromLocalStorage(Str(f[localKey])))}
    IN  [indexedDBKey \in {Slice(localKey, Len(localStoragePrefix)) : localKey \in ok}
            |-> deserializeFromLocalStorage(Str(f[localStoragePrefix \o indexedDBKey]))]

\* a faulty importFromLocalStorage whose importCount is not reset between
\* calls: it starts from the count the call before resolved with
ImportRunCarry(origin, id, f) ==
    LET counts == SelectSeq(snap.counts, LAMBDA n : n >= 0)
    IN  [origin |-> origin, id |-> id, todo |-> ImportTodo(f), verifying |-> {},
         count |-> IF counts = <<>> THEN 0 ELSE counts[Len(counts)],
         rejected |-> FALSE]

\* a call of importFromLocalStorage in flight: todo are the puts not yet
\* done, verifying the keys in their post-import timestamp check, count is
\* importCount, rejected whether Promise.all has rejected
ImportRun(origin, id, f) ==
    [origin |-> origin, id |-> id, todo |-> ImportTodo(f), verifying |-> {},
     count |-> 0, rejected |-> FALSE]

ImportSettled(run) == DOMAIN run.todo = {} /\ run.verifying = {}

LoadDataResponse(id, success) ==
    [type |-> "loadDataResponse", messageId |-> id, success |-> success]

\* the continuation of a call that resolved: the startup chain calls
\* exportToLocalStorage, the handler of setAllLocalStorageData posts its
\* success response and schedules the reload, the initial load only logs
ImportResolved(run, exps) ==
    /\ exports' = IF run.origin = "startup" THEN StartExport(exps, "startup") ELSE exps
    /\ outbox' = IF run.origin = "setAll"
                 THEN <<LoadDataResponse(run.id, TRUE)>>
                 ELSE <<>>
    /\ reload' = IF run.origin = "setAll" THEN "scheduled" ELSE reload
    /\ uncaught' = uncaught
    /\ snap' = IF run.origin = "scenario"
               THEN [snap EXCEPT !.counts = Append(@, run.count)]
               ELSE snap

\* the continuation of a call that rejected: the startup chain logs it in its
\* catch; the two message handlers attached no rejection handler
ImportRejected(run, exps) ==
    /\ exports' = exps
    /\ uncaught' = IF run.origin \in {"initial", "setAll"}
                   THEN uncaught \cup {[origin |-> run.origin, id |-> run.id]}
                   ELSE uncaught
    /\ snap' = IF run.origin = "scenario"
               THEN [snap EXCEPT !.counts = Append(@, -1)]
               ELSE snap
    /\ outbox' = <<>>
    /\ UNCHANGED <<reload>>

Without(fn, k) == [x \in DOMAIN fn \ {k} |-> fn[x]]

\* one put of a call succeeds: importCount++, then the timestamp check starts
ImportPut(i, k) ==
    /\ pc \in {"running", "scenario"}
    /\ i \in 1..Len(imports)
    /\ k \in DOMAIN imports[i].todo
    /\ store' = saveToIndexedDB(store, k, imports[i].todo[k])
    /\ imports' = [imports EXCEPT ![i].todo = Without(@, k),
                                  ![i].verifying = @ \cup {k},
                                  ![i].count = @ + 1]
    /\ exports' = StoreTouched(exports)
    /\ lastExport' = [lastExport EXCEPT !.storeQuiet = FALSE]
    /\ outbox' = <<>>
    /\ UNCHANGED <<pc, isInIframe, hasIndex, flat, lastSyncedData, failedSend,
                   exportTimer, notifyTimer, hostListener, initListener,
                   initTimeout, readySignal, reload, loads, hostMsgs,
                   uncaught, appWrites, atBoot, requested, faults, exportPair,
                   captures, game, codecVars, dbVars, scenVars>>

\* the timestamp check of one key ends (it only logs); when it was the last
\* promise, Promise.all resolves and the call resolves with importCount
ImportVerify(i, k) ==
    /\ pc \in {"running", "scenario"}
    /\ i \in 1..Len(imports)
    /\ k \in imports[i].verifying
    /\ LET run == [imports[i] EXCEPT !.verifying = @ \ {k}]
       IN  IF ImportSettled(run)
           THEN /\ imports' = RemoveAt(imports, i)
                /\ IF run.rejected
                   THEN /\ outbox' = <<>>
                        /\ UNCHANGED <<exports, reload, uncaught, snap>>
                   ELSE ImportResolved(run, exports)
           ELSE /\ imports' = [imports EXCEPT ![i] = run]
                /\ outbox' = <<>>
                /\ UNCHANGED <<exports, reload, uncaught, snap>>
    /\ UNCHANGED <<pc, isInIframe, store, hasIndex, flat, lastSyncedData, failedSend,
                   exportTimer, notifyTimer, hostListener, initListener,
                   initTimeout, readySignal, loads, hostMsgs, appWrites,
                   atBoot, requested, faults, lastExport, exportPair, captures, game, codecVars, dbVars, scen>>

\* one put of a call fails (openDB or the put request): its promise rejects,
\* Promise.all rejects at the first such failure and the call rejects; the
\* puts already issued still run
ImportPutFail(i, k) ==
    /\ pc \in {"running", "scenario"}
    /\ i \in 1..Len(imports)
    /\ k \in DOMAIN imports[i].todo
    /\ faults < MaxFaults
    /\ faults' = faults + 1
    /\ LET run == [imports[i] EXCEPT !.todo = Without(@, k), !.rejected = TRUE]
       IN  /\ imports' = IF ImportSettled(run) THEN RemoveAt(imports, i)
                         ELSE [imports EXCEPT ![i] = run]
           /\ IF imports[i].rejected
              THEN /\ outbox' = <<>>
                   /\ UNCHANGED <<exports, reload, uncaught, snap>>
              ELSE ImportRejected(run, exports)
    /\ UNCHANGED <<pc, isInIframe, store, hasIndex, flat, lastSyncedData, failedSend,
                   exportTimer, notifyTimer, hostListener, initListener,
                   initTimeout, readySignal, loads, hostMsgs, appWrites,
                   atBoot, requested, lastExport, exportPair, captures, game, codecVars, dbVars, scen>>

(***************************************************************************)
(* Initialization                                                          *)
(***************************************************************************)

GetInitialSaveData(id) == [type |-> "getInitialSaveData", messageId |-> id]

\* a faulty WigdosXPSync.initialize that does not test isInIframe
WigdosXPInitializeAnywhere ==
    /\ initTimeout' = "armed"
    /\ initListener' = TRUE
    /\ outbox' = <<GetInitialSaveData(loads)>>
    /\ hostListener' = TRUE
    /\ readySignal' = "scheduled"
    /\ notifyTimer' = TRUE

\* WigdosXPSync.initialize: nothing when standalone; else
\* requestInitialSaveData (timer, listener, request), setupMessageListeners,
\* sendReadySignal and the periodic notify timer, in one task
WigdosXPInitialize ==
    IF ~isInIframe
    THEN /\ outbox' = <<>>
         /\ UNCHANGED <<initListener, initTimeout, hostListener, readySignal,
                        notifyTimer>>
    ELSE /\ initTimeout' = "armed"
         /\ initListener' = TRUE
         /\ outbox' = <<GetInitialSaveData(loads)>>
         /\ hostListener' = TRUE
         /\ readySignal' = "scheduled"
         /\ notifyTimer' = TRUE

\* IndexedDBSync.initialize: importFromLocalStorage, then
\* exportToLocalStorage, then the periodic timer.  The loop of the import
\* runs at once; with no put to wait for, the import resolves in the same
\* task and the export is started.
IndexedDBInitialize ==
    LET run == ImportRun("startup", 0, flat)
    IN  IF ImportSettled(run)
        THEN /\ imports' = imports
             /\ exports' = StartExport(exports, "startup")
        ELSE /\ imports' = Append(imports, run)
             /\ exports' = exports

\* waitForIndexedDB: openDB succeeded, both initialize calls run
Boot ==
    /\ pc = "waiting"
    /\ openCall.phase = "resolved"
    /\ loads <= MaxLoads
    /\ pc' = "running"
    /\ atBoot' = [store |-> store, flat |-> flat]
    /\ IndexedDBInitialize
    /\ WigdosXPInitialize
    /\ UNCHANGED <<isInIframe, store, hasIndex, flat, lastSyncedData, failedSend, exportTimer,
                   reload, loads, hostMsgs, uncaught, appWrites, requested,
                   faults, lastExport, exportPair, captures, game, codecVars, dbVars, scenVars>>

\* a faulty timeout callback that throws
TimeoutCallbackThrows ==
    /\ initTimeout' = "fired"
    /\ uncaught' = uncaught \cup {[origin |-> "timeout", id |-> loads]}
    /\ UNCHANGED <<initListener, flat, store, imports>>

\* the callback of the 5000 ms timer of requestInitialSaveData: it logs
TimeoutCallback ==
    /\ initTimeout' = "fired"
    /\ UNCHANGED <<initListener, flat, store, imports, uncaught>>

\* the 5000 ms timer fires; the 1000 ms timer set in the same task
\* (sendReadySignal) has fired before it
InitialTimeout ==
    /\ pc = "running"
    /\ initTimeout = "armed"
    /\ readySignal = "sent"
    /\ TimeoutCallback
    /\ outbox' = <<>>
    /\ UNCHANGED <<pc, isInIframe, hasIndex, lastSyncedData, failedSend, exports,
                   exportTimer, notifyTimer, hostListener, readySignal,
                   reload, loads, hostMsgs, appWrites, atBoot, requested, faults,
                   lastExport, exportPair, captures, game, codecVars, dbVars, scenVars>>

\* the 1000 ms timer of sendReadySignal
ReadySignal ==
    /\ pc = "running"
    /\ readySignal = "scheduled"
    /\ readySignal' = "sent"
    /\ outbox' = <<[type |-> "wigdosxp-integration-ready"]>>
    /\ UNCHANGED <<pc, isInIframe, store, hasIndex, flat, lastSyncedData, failedSend, exports,
                   imports, exportTimer, notifyTimer, hostListener, initListener,
                   initTimeout, reload, loads, hostMsgs, uncaught, appWrites,
                   atBoot, requested, faults, lastExport, exportPair, captures, game, codecVars, dbVars, scenVars>>

\* the 100 ms timer of handleSetAllLocalStorageData: the page reloads; the
\* script's state is gone, the two stores and what was posted remain
Reload ==
    /\ pc = "running"
    /\ reload = "scheduled"
    /\ pc' = "waiting"
    /\ reload' = "none"
    /\ loads' = loads + 1
    /\ lastSyncedData' = <<>>
    /\ failedSend' = <<>>
    /\ exports' = <<>>
    /\ imports' = <<>>
    /\ exportTimer' = FALSE
    /\ notifyTimer' = FALSE
    /\ hostListener' = FALSE
    /\ initListener' = FALSE
    /\ initTimeout' = "none"
    /\ readySignal' = "none"
    /\ lastExport' = NoExport
    /\ exportPair' = NoPair
    /\ captures' = [id \in DOMAIN captures |->
                       IF captures[id] = "pending" THEN "lost" ELSE captures[id]]
    /\ outbox' = <<>>
    /\ UNCHANGED <<isInIframe, store, hasIndex, flat, hostMsgs, uncaught,
                   appWrites, atBoot, requested, faults, game, codecVars, dbVars,
                   scenVars>>

\* the game writes a file to the object store
AppWrite(k, v) ==
    /\ pc = "running"
    /\ appWrites < MaxAppWrites
    /\ appWrites' = appWrites + 1
    /\ store' = (k :> v) @@ store
    /\ exports' = StoreTouched(exports)
    /\ lastExport' = [lastExport EXCEPT !.storeQuiet = FALSE]
    /\ outbox' = <<>>
    /\ UNCHANGED <<pc, isInIframe, hasIndex, flat, lastSyncedData, failedSend, imports,
                   exportTimer, notifyTimer, hostListener, initListener,
                   initTimeout, readySignal, reload, loads, hostMsgs,
                   uncaught, atBoot, requested, faults, exportPair, captures, game, codecVars, dbVars,
                   scenVars>>

(***************************************************************************)
(* Messages from the parent frame                                          *)
(***************************************************************************)

\* a faulty handler that runs the continuation of the import at once,
\* without waiting for the call to resolve
HandlerImportEarly(run) ==
    /\ imports' = IF ImportSettled(run) THEN imports ELSE Append(imports, run)
    /\ ImportResolved(run, FlatTouched(exports))

\* an import started by a message handler: with no put to wait for it
\* resolves in the same task, else it joins the calls in flight
HandlerImport(run) ==
    IF ImportSettled(run)
    THEN /\ imports' = imports
         /\ ImportResolved(run, FlatTouched(exports))
    ELSE /\ imports' = Append(imports, run)
         /\ exports' = FlatTouched(exports)
         /\ outbox' = <<>>
         /\ UNCHANGED <<reload, uncaught, snap>>

\* the messages the parent frame may send: MaxHostMsgs, MaxPullMsgs where
\* repeated responses to getInitialSaveData are studied, MaxReplaceMsgs
\* where repeated setAllLocalStorageData requests are, MaxSnapshotMsgs where
\* requestSnapshot requests are
HostMsgLimit ==
    IF scen = "pull" THEN MaxPullMsgs
    ELSE IF scen = "replace" THEN MaxReplaceMsgs
    ELSE IF scen = "snapshot" THEN MaxSnapshotMsgs
    ELSE MaxHostMsgs

\* a faulty responseHandler that tests neither the type nor the messageId
ResponseHandledAny(matches) == initListener

\* responseHandler runs (it is registered) and its test of the message's
\* type and messageId passes
ResponseHandled(matches) == initListener /\ matches

\* responseHandler of requestInitialSaveData receives a message.  matches:
\* its type is initialSaveDataResponse and its messageId is the request's.
\* The handler acts while it is registered; only a matching message
\* removes it.
HostInitialResponse(data, matches) ==
    /\ pc = "running"
    /\ isInIframe
    /\ hostMsgs < HostMsgLimit
    /\ hostMsgs' = hostMsgs + 1
    /\ IF ResponseHandled(matches)
       THEN /\ initTimeout' = IF initTimeout = "armed" THEN "cleared" ELSE initTimeout
            /\ initListener' = FALSE
            /\ IF DOMAIN data # {}
               THEN /\ flat' = SetAll(flat, data)
                    /\ lastExport' = [lastExport EXCEPT !.flatQuiet = FALSE]
                    /\ HandlerImport(ImportRun("initial", hostMsgs + 1,
                                               SetAll(flat, data)))
               ELSE /\ outbox' = <<>>
                    /\ UNCHANGED <<flat, lastExport, imports, exports, reload,
                                   uncaught, snap>>
       ELSE /\ outbox' = <<>>
            /\ UNCHANGED <<initTimeout, initListener, flat, lastExport,
                           imports, exports, reload, uncaught, snap>>
    /\ UNCHANGED <<pc, isInIframe, store, hasIndex, lastSyncedData, failedSend, exportTimer,
                   notifyTimer, hostListener, readySignal, loads, appWrites,
                   atBoot, requested, faults, exportPair, captures, game, codecVars, dbVars, scen>>

\* handleSetAllLocalStorageData.  has: the message carries
\* allLocalStorageData; without it the handler does nothing.
HostSetAll(data, has) ==
    /\ pc = "running"
    /\ hostListener
    /\ hostMsgs < HostMsgLimit
    /\ hostMsgs' = hostMsgs + 1
    /\ requested' = ((hostMsgs + 1) :>
                        [has |-> has, data |-> IF has THEN data ELSE <<>>]) @@ requested
    /\ IF has
       THEN /\ flat' = SetAll(Cleared, data)
            /\ lastExport' = [lastExport EXCEPT !.flatQuiet = FALSE]
            /\ HandlerImport(ImportRun("setAll", hostMsgs + 1,
                                       SetAll(Cleared, data)))
       ELSE /\ outbox' = <<>>
            /\ UNCHANGED <<flat, lastExport, imports, exports, reload,
                           uncaught, snap>>
    /\ UNCHANGED <<pc, isInIframe, store, hasIndex, lastSyncedData, failedSend, exportTimer,
                   notifyTimer, hostListener, initListener, initTimeout,
                   readySignal, loads, appWrites, atBoot, faults, exportPair,
                   captures, game, codecVars, dbVars, scen>>

\* handleSetAllLocalStorageData when a localStorage.setItem throws: done are
\* the entries written before (the order of Object.keys is the parent
\* frame's); the catch sends the failure response, and neither the import
\* nor the reload is reached
HostSetAllFail(data, done) ==
    /\ pc = "running"
    /\ hostListener
    /\ hostMsgs < HostMsgLimit
    /\ faults < MaxFaults
    /\ done \subseteq DOMAIN data
    /\ done # DOMAIN data
    /\ hostMsgs' = hostMsgs + 1
    /\ faults' = faults + 1
    /\ requested' = ((hostMsgs + 1) :> [has |-> TRUE, data |-> data]) @@ requested
    /\ flat' = SetAll(Cleared, [k \in done |-> data[k]])
    /\ lastExport' = [lastExport EXCEPT !.flatQuiet = FALSE]
    /\ exports' = FlatTouched(exports)
    /\ outbox' = <<LoadDataResponse(hostMsgs + 1, FALSE)>>
    /\ UNCHANGED <<pc, isInIframe, store, hasIndex, lastSyncedData, failedSend,
                   imports, exportTimer, notifyTimer, hostListener, initListener,
                   initTimeout, readySignal, reload, loads, uncaught, appWrites,
                   atBoot, exportPair, captures, game, codecVars, dbVars, scenVars>>

\* a faulty handleGetAllLocalStorageData that sends nothing back
HostGetAllSilent ==
    /\ pc = "running"
    /\ hostListener
    /\ hostMsgs < MaxHostMsgs
    /\ hostMsgs' = hostMsgs + 1
    /\ outbox' = <<>>
    /\ UNCHANGED <<pc, isInIframe, store, hasIndex, flat, lastSyncedData, failedSend, exports,
                   imports, exportTimer, notifyTimer, hostListener, initListener,
                   initTimeout, readySignal, reload, loads, uncaught, appWrites,
                   atBoot, requested, faults, lastExport, exportPair, captures, game, codecVars, dbVars, scenVars>>

\* handleGetAllLocalStorageData when reading localStorage throws: the catch
\* sends null data and the error's message
HostGetAllFail ==
    /\ pc = "running"
    /\ hostListener
    /\ hostMsgs < MaxHostMsgs
    /\ faults < MaxFaults
    /\ hostMsgs' = hostMsgs + 1
    /\ faults' = faults + 1
    /\ outbox' = <<[type |-> "saveDataResponse", messageId |-> hostMsgs + 1,
                    data |-> Null, error |-> TRUE]>>
    /\ UNCHANGED <<pc, isInIframe, store, hasIndex, flat, lastSyncedData, failedSend, exports,
                   imports, exportTimer, notifyTimer, hostListener, initListener,
                   initTimeout, readySignal, reload, loads, uncaught, appWrites,
                   atBoot, requested, lastExport, exportPair, captures, game, codecVars, dbVars, scenVars>>

\* handleGetAllLocalStorageData: every entry of localStorage is sent back
HostGetAll ==
    /\ pc = "running"
    /\ hostListener
    /\ hostMsgs < MaxHostMsgs
    /\ hostMsgs' = hostMsgs + 1
    /\ outbox' = <<[type |-> "saveDataResponse",
                                 messageId |-> hostMsgs + 1, data |-> flat]>>
    /\ UNCHANGED <<pc, isInIframe, store, hasIndex, flat, lastSyncedData, failedSend, exports,
                   imports, exportTimer, notifyTimer, hostListener, initListener,
                   initTimeout, readySignal, reload, loads, uncaught, appWrites,
                   atBoot, requested, faults, lastExport, exportPair, captures, game, codecVars, dbVars, scenVars>>

SnapshotResponse(id, dataUrl) ==
    [type |-> "snapshotResponse", messageId |-> id, dataUrl |-> dataUrl]

\* handleSnapshotRequest.  html2canvas is not part of this script: when it
\* is not defined the response carries null at once, else the response waits
\* for the promise html2canvas returned
HostSnapshot(defined) ==
    /\ pc = "running"
    /\ hostListener
    /\ hostMsgs < HostMsgLimit
    /\ hostMsgs' = hostMsgs + 1
    /\ outbox' = IF defined THEN <<>> ELSE <<SnapshotResponse(hostMsgs + 1, "null")>>
    /\ captures' = ((hostMsgs + 1) :> (IF defined THEN "pending" ELSE "answered"))
                       @@ captures
    /\ UNCHANGED <<pc, isInIframe, store, hasIndex, flat, lastSyncedData, failedSend, exports,
                   imports, exportTimer, notifyTimer, hostListener, initListener,
                   initTimeout, readySignal, reload, loads, uncaught, appWrites,
                   atBoot, requested, faults, lastExport, exportPair, game, codecVars, dbVars, scenVars>>

\* handleSnapshotRequest when the call of html2canvas throws: the catch of
\* the handler logs the error and posts nothing
HostSnapshotThrows ==
    /\ pc = "running"
    /\ hostListener
    /\ hostMsgs < HostMsgLimit
    /\ faults < MaxFaults
    /\ hostMsgs' = hostMsgs + 1
    /\ faults' = faults + 1
    /\ outbox' = <<>>
    /\ captures' = ((hostMsgs + 1) :> "failed") @@ captures
    /\ UNCHANGED <<pc, isInIframe, store, hasIndex, flat, lastSyncedData, failedSend, exports,
                   imports, exportTimer, notifyTimer, hostListener, initListener,
                   initTimeout, readySignal, reload, loads, uncaught, appWrites,
                   atBoot, requested, lastExport, exportPair, game, codecVars, dbVars, scenVars>>

\* a faulty handler whose catch of the capture posts nothing
CaptureAnswerImageOnly(id, ok) ==
    IF ok THEN <<SnapshotResponse(id, "image")>> ELSE <<>>

\* the callbacks on the promise of html2canvas: then posts the image, catch
\* posts null
CaptureAnswer(id, ok) ==
    <<SnapshotResponse(id, IF ok THEN "image" ELSE "null")>>

\* the promise of html2canvas settles: it resolves with a canvas (ok) or it
\* rejects
CaptureDone(id, ok) ==
    /\ pc = "running"
    /\ id \in DOMAIN captures
    /\ captures[id] = "pending"
    /\ outbox' = CaptureAnswer(id, ok)
    /\ captures' = [captures EXCEPT ![id] = "answered"]
    /\ UNCHANGED <<pc, isInIframe, store, hasIndex, flat, lastSyncedData, failedSend, exports,
                   imports, exportTimer, notifyTimer, hostListener, initListener,
                   initTimeout, readySignal, reload, loads, hostMsgs, uncaught, appWrites,
                   atBoot, requested, faults, lastExport, exportPair, game, codecVars, dbVars, scenVars>>

(***************************************************************************)
(* The save system in a page: Spec                                         *)
(***************************************************************************)

KeyA == <<"a">>
KeyB == <<"b">>
Keys == {KeyA, KeyB}

V1 == Num(1)
V2 == Num(2)
VBlob == Blob(<<7>>, OctetStream)
\* a buffer whose serialization is longer than the limit
VBig == ArrayBuffer([i \in 1..(6 * Kilo * Kilo) |-> 0])
\* a file record carrying the field the index is built on
VStamped == Object(TimestampField :> Num(5))

JS1 == <<"J", "S", ":", "1">>
JS2 == <<"J", "S", ":", "2">>

\* what an earlier page lifetime exported when the store held a -> 1
FlatA1 == (localStoragePrefix \o KeyA) :> JS1

\* the two stores when the page loads: a first visit; a store never
\* exported; a store the game wrote (a -> 2) after the last export; a store
\* holding a Blob; a store with the timestamp index; a store that was
\* cleared while localStorage was kept
PageLoads ==
    {[store |-> <<>>, hasIndex |-> FALSE, flat |-> <<>>],
     [store |-> KeyA :> V1, hasIndex |-> FALSE, flat |-> <<>>],
     [store |-> KeyA :> V2, hasIndex |-> FALSE, flat |-> FlatA1],
     [store |-> (KeyA :> V1) @@ (KeyB :> VBlob), hasIndex |-> FALSE, flat |-> FlatA1],
     [store |-> KeyB :> VStamped, hasIndex |-> TRUE, flat |-> <<>>],
     [store |-> <<>>, hasIndex |-> FALSE, flat |-> FlatA1]}

\* what the game writes while the page runs
AppValues == {V2, VBig}

\* allLocalStorageData of the parent frame's messages
HostData ==
    {<<>>, <<"x">> :> <<"1">>, (localStoragePrefix \o KeyA) :> JS2}

\* the stores of a page that runs inside the parent frame
FrameLoads == {load \in PageLoads : load.store # <<>> /\ ~load.hasIndex}

\* the game-start sequence before anything ran: _gameStarted and
\* _startAttempted are false; bodies counts the runs of the body of
\* _startGameOnce, fired the triggers that occurred, pending the triggers
\* whose async function waits for loaderReadyPromise, started whether one of
\* the start functions returned a true value
NoGame ==
    [gameStarted |-> FALSE, startAttempted |-> FALSE, bodies |-> 0, fired |-> {},
     pending |-> {}, started |-> FALSE]

SysInit(load, inIframe) ==
    /\ isInIframe = inIframe
    /\ store = load.store
    /\ hasIndex = load.hasIndex
    /\ flat = load.flat
    /\ lastSyncedData = <<>>
    /\ failedSend = <<>>
    /\ exports = <<>>
    /\ imports = <<>>
    /\ exportTimer = FALSE
    /\ notifyTimer = FALSE
    /\ hostListener = FALSE
    /\ initListener = FALSE
    /\ initTimeout = "none"
    /\ readySignal = "none"
    /\ reload = "none"
    /\ loads = 1
    /\ outbox = <<>>
    /\ hostMsgs = 0
    /\ uncaught = {}
    /\ appWrites = 0
    /\ atBoot = [store |-> <<>>, flat |-> <<>>]
    /\ requested = <<>>
    /\ faults = 0
    /\ lastExport = NoExport
    /\ exportPair = NoPair
    /\ captures = <<>>
    /\ game = NoGame

CodecOff ==
    /\ cPc = "off"
    /\ cIn = Null
    /\ cMid = Null
    /\ cOut = Null

ScenarioOff ==
    /\ scen = "off"
    /\ snap = [store |-> <<>>, flat |-> <<>>, cleared |-> FALSE, after |-> <<>>,
               counts |-> <<>>]

\* the database holds FILE_DATA and the openDB call of waitForIndexedDB
\* resolved at once
OpenDBOff ==
    /\ idb = [version |-> 1, hasStore |-> TRUE]
    /\ openCall = [phase |-> "resolved", upgrades |-> 0, target |-> 0,
                   had |-> TRUE, version |-> 1]

\* the page inside the parent frame
Init ==
    /\ pc = "waiting"
    /\ \E load \in FrameLoads : SysInit(load, TRUE)
    /\ CodecOff
    /\ OpenDBOff
    /\ ScenarioOff

Next ==
    \/ Boot
    \/ ExportTick
    \/ \E i \in 1..MaxExports : ExportRead(i)
    \/ \E i \in 1..MaxExports, k \in Keys : ExportBlobDone(i, k)
    \/ NotifyTick
    \/ \E i \in 1..(MaxHostMsgs + 1), k \in Keys : ImportPut(i, k)
    \/ \E i \in 1..(MaxHostMsgs + 1), k \in Keys : ImportVerify(i, k)
    \/ InitialTimeout
    \/ ReadySignal
    \/ Reload
    \/ AppWrite(KeyA, V2)
    \/ \E data \in HostData, matches \in BOOLEAN : HostInitialResponse(data, matches)
    \/ \E data \in HostData, has \in BOOLEAN : HostSetAll(data, has)
    \/ HostGetAll
    \/ HostSnapshot(FALSE)

Spec == Init /\ [][Next]_vars

\* the page opened on its own: WigdosXPSync stays off; IndexedDB requests
\* may fail
InitStandalone ==
    /\ pc = "waiting"
    /\ \E load \in PageLoads : SysInit(load, FALSE)
    /\ CodecOff
    /\ OpenDBOff
    /\ ScenarioOff

NextStandalone ==
    \/ Boot
    \/ ExportTick
    \/ \E i \in 1..MaxExports : ExportRead(i)
    \/ \E i \in 1..MaxExports : ExportReadFail(i)
    \/ \E i \in 1..MaxExports, k \in Keys : ExportBlobDone(i, k)
    \/ \E k \in Keys : ImportPut(1, k)
    \/ \E k \in Keys : ImportVerify(1, k)
    \/ \E k \in Keys : ImportPutFail(1, k)
    \/ \E k \in Keys, v \in AppValues : AppWrite(k, v)

SpecStandalone == InitStandalone /\ [][NextStandalone]_vars

\* the stores of a page in the parent frame whose IndexedDB requests may
\* fail: a value too large to export; a store written after the last
\* export; a store that was cleared while localStorage was kept
FaultLoads ==
    {[store |-> KeyA :> VBig, hasIndex |-> FALSE, flat |-> <<>>],
     [store |-> KeyA :> V2, hasIndex |-> FALSE, flat |-> FlatA1],
     [store |-> KeyB :> VStamped, hasIndex |-> TRUE, flat |-> <<>>],
     [store |-> <<>>, hasIndex |-> FALSE, flat |-> FlatA1]}

\* allLocalStorageData of a setAllLocalStorageData request: also data with
\* a companion entry next to its data entry, and data with a companion entry
\* alone
ReplaceData ==
    HostData \cup
    {((localStoragePrefix \o KeyA) :> JS2) @@
         ((localStoragePrefix \o KeyA \o TsSuffix) :> <<"5">>),
     (localStoragePrefix \o KeyA \o TsSuffix) :> <<"5">>}

InitFaulty ==
    /\ pc = "waiting"
    /\ \E load \in FaultLoads : SysInit(load, TRUE)
    /\ CodecOff
    /\ OpenDBOff
    /\ ScenarioOff

NextFaulty ==
    \/ Boot
    \/ ExportTick
    \/ \E i \in 1..MaxExports : ExportRead(i)
    \/ \E i \in 1..MaxExports : ExportReadFail(i)
    \/ NotifyTick
    \/ NotifyTickFail
    \/ \E i \in 1..(MaxHostMsgs + 1), k \in Keys : ImportPut(i, k)
    \/ \E i \in 1..(MaxHostMsgs + 1), k \in Keys : ImportVerify(i, k)
    \/ \E i \in 1..(MaxHostMsgs + 1), k \in Keys : ImportPutFail(i, k)
    \/ InitialTimeout
    \/ ReadySignal
    \/ Reload
    \/ \E data \in ReplaceData, has \in BOOLEAN : HostSetAll(data, has)
    \/ HostGetAll
    \/ HostGetAllFail

\* the page inside the parent frame, with IndexedDB requests that may fail
SpecFaulty == InitFaulty /\ [][NextFaulty]_vars

\* a request to IndexedDB that an import waits for settles
ImportStep ==
    \E i \in 1..(MaxHostMsgs + 1), k \in Keys :
        ImportPut(i, k) \/ ImportVerify(i, k) \/ ImportPutFail(i, k)

\* the same page where every request to IndexedDB that an import waits for
\* settles (it succeeds or it fails) and the notify timer keeps firing
SpecFaultyLive == SpecFaulty /\ WF_vars(ImportStep) /\ WF_vars(NotifyTick)

(***************************************************************************)
(* The initial open sequence: SpecOpenDB                                   *)
(***************************************************************************)

\* the version the game opens the database with when it creates it
GameVersion == 3

\* no openDB call yet
NoCall == [phase |-> "none", upgrades |-> 0, target |-> 0, had |-> FALSE, version |-> 0]

\* openDB: indexedDB.open(CONFIG.db.name) is requested
OpenDB ==
    openCall' = [phase |-> "request", upgrades |-> 0, target |-> 0, had |-> FALSE,
                 version |-> 0]

\* waitForIndexedDB: the loop calls openDB, at first and again 1500 ms after
\* a call that rejected
WaitForIndexedDB ==
    /\ pc = "waiting"
    /\ openCall.phase \in {"none", "rejected"}
    /\ OpenDB
    /\ UNCHANGED <<idb, sysVars, codecVars, scenVars>>

\* request.onsuccess: an open without a version creates a missing database
\* at version 1 with no object store; without FILE_DATA the connection is
\* closed and one open at db.version + 1 is requested, else the call
\* resolves with the connection
RequestSuccess ==
    /\ pc = "waiting"
    /\ openCall.phase = "request"
    /\ LET db == IF idb.version = 0 THEN [version |-> 1, hasStore |-> FALSE] ELSE idb
       IN  /\ idb' = db
           /\ openCall' =
                IF ~db.hasStore
                THEN [phase |-> "upgradeReq", upgrades |-> openCall.upgrades + 1,
                      target |-> db.version + 1, had |-> FALSE, version |-> db.version]
                ELSE [phase |-> "resolved", upgrades |-> openCall.upgrades,
                      target |-> 0, had |-> TRUE, version |-> db.version]
    /\ UNCHANGED <<sysVars, codecVars, scenVars>>

\* request.onerror: the call rejects
RequestError ==
    /\ pc = "waiting"
    /\ openCall.phase = "request"
    /\ openCall' = [openCall EXCEPT !.phase = "rejected"]
    /\ UNCHANGED <<idb, sysVars, codecVars, scenVars>>

\* upgradeReq.onupgradeneeded and upgradeReq.onsuccess: an open above the
\* database's version runs the upgrade, which creates FILE_DATA and its
\* timestamp index when the store is absent; the call resolves
UpgradeSuccess ==
    /\ pc = "waiting"
    /\ openCall.phase = "upgradeReq"
    /\ openCall.target >= idb.version
    /\ IF openCall.target > idb.version
       THEN /\ idb' = [version |-> openCall.target, hasStore |-> TRUE]
            /\ hasIndex' = IF idb.hasStore THEN hasIndex ELSE TRUE
       ELSE UNCHANGED <<idb, hasIndex>>
    /\ openCall' = [openCall EXCEPT !.phase = "resolved"]
    /\ UNCHANGED <<pc, isInIframe, store, flat, lastSyncedData, exports, imports,
                   exportTimer, notifyTimer, hostListener, initListener, initTimeout,
                   readySignal, reload, loads, outbox, hostMsgs, uncaught, appWrites,
                   atBoot, requested, faults, lastExport, failedSend, exportPair,
                   captures, game, codecVars, scenVars>>

\* an upgradeReq.onerror that asks for the upgrade again
UpgradeErrorRetries ==
    /\ pc = "waiting"
    /\ openCall.phase = "upgradeReq"
    /\ openCall.upgrades < 2
    /\ openCall' = [openCall EXCEPT !.upgrades = @ + 1]
    /\ UNCHANGED <<idb, sysVars, codecVars, scenVars>>

\* upgradeReq.onerror: the call rejects; an open below the database's
\* version always ends here
UpgradeError ==
    /\ pc = "waiting"
    /\ openCall.phase = "upgradeReq"
    /\ openCall' = [openCall EXCEPT !.phase = "rejected"]
    /\ UNCHANGED <<idb, sysVars, codecVars, scenVars>>

\* the game creates the database: it opens it at its own version and
\* creates FILE_DATA with the timestamp index
GameCreates ==
    /\ pc = "waiting"
    /\ idb.version < GameVersion
    /\ idb' = [version |-> GameVersion, hasStore |-> TRUE]
    /\ hasIndex' = IF idb.hasStore THEN hasIndex ELSE TRUE
    /\ UNCHANGED <<pc, isInIframe, store, flat, lastSyncedData, exports, imports,
                   exportTimer, notifyTimer, hostListener, initListener, initTimeout,
                   readySignal, reload, loads, outbox, hostMsgs, uncaught, appWrites,
                   atBoot, requested, faults, lastExport, failedSend, exportPair,
                   openCall, captures, game, codecVars, scenVars>>

\* the database when the page loads: none yet; one without FILE_DATA; one
\* with FILE_DATA, empty or written by the game, also with a BigInt, which
\* JSON.stringify rejects
Databases ==
    {[idb |-> [version |-> 0, hasStore |-> FALSE], store |-> <<>>, hasIndex |-> FALSE],
     [idb |-> [version |-> 1, hasStore |-> FALSE], store |-> <<>>, hasIndex |-> FALSE],
     [idb |-> [version |-> 2, hasStore |-> FALSE], store |-> <<>>, hasIndex |-> FALSE],
     [idb |-> [version |-> 1, hasStore |-> TRUE], store |-> <<>>, hasIndex |-> FALSE],
     [idb |-> [version |-> GameVersion, hasStore |-> TRUE], store |-> KeyA :> V1,
      hasIndex |-> TRUE],
     [idb |-> [version |-> GameVersion, hasStore |-> TRUE],
      store |-> (KeyA :> BigInt(1)) @@ (KeyB :> V1), hasIndex |-> FALSE]}

InitOpenDB ==
    /\ pc = "waiting"
    /\ \E d \in Databases, f \in {<<>>, FlatA1}, inIframe \in BOOLEAN :
          /\ idb = d.idb
          /\ SysInit([store |-> d.store, hasIndex |-> d.hasIndex, flat |-> f], inIframe)
    /\ openCall = NoCall
    /\ CodecOff
    /\ ScenarioOff

\* a step of the loop of waitForIndexedDB
OpenStep ==
    \/ WaitForIndexedDB
    \/ RequestSuccess
    \/ RequestError
    \/ UpgradeSuccess
    \/ UpgradeError
    \/ Boot

NextOpenDB ==
    \/ WaitForIndexedDB
    \/ RequestSuccess
    \/ RequestError
    \/ UpgradeSuccess
    \/ UpgradeError
    \/ GameCreates
    \/ Boot
    \/ ExportTick
    \/ ExportRead(1)
    \/ NotifyTick
    \/ \E k \in Keys : ImportPut(1, k)
    \/ \E k \in Keys : ImportVerify(1, k)
    \/ InitialTimeout
    \/ ReadySignal

\* the page from its load event on, with open requests that may fail
SpecOpenDB == InitOpenDB /\ [][NextOpenDB]_vars

\* the same page where every request the loop waits for settles and every
\* timer it waits for fires
SpecOpenDBLive == SpecOpenDB /\ WF_vars(OpenStep)

(***************************************************************************)
(* Overlapping export calls: SpecOverlap                                   *)
(***************************************************************************)

\* stores with a Blob, whose FileReader keeps an export call suspended
OverlapLoads ==
    {[store |-> KeyA :> VBlob, hasIndex |-> FALSE, flat |-> <<>>],
     [store |-> (KeyA :> V1) @@ (KeyB :> VBlob), hasIndex |-> FALSE, flat |-> FlatA1]}

InitOverlap ==
    /\ pc = "waiting"
    /\ \E load \in OverlapLoads : SysInit(load, FALSE)
    /\ CodecOff
    /\ OpenDBOff
    /\ scen = "overlap"
    /\ snap = [store |-> <<>>, flat |-> <<>>, cleared |-> FALSE, after |-> <<>>,
               counts |-> <<>>]

NextOverlap ==
    \/ Boot
    \/ ExportTick
    \/ \E i \in 1..MaxOverlap : ExportRead(i)
    \/ \E i \in 1..MaxOverlap, k \in Keys : ExportBlobDone(i, k)
    \/ \E k \in Keys : ImportPut(1, k)
    \/ \E k \in Keys : ImportVerify(1, k)
    \/ \E k \in Keys : AppWrite(k, V2)

\* the page opened on its own, where the export timer may fire while an
\* export call is still in flight
SpecOverlap == InitOverlap /\ [][NextOverlap]_vars

(***************************************************************************)
(* Repeated responses to getInitialSaveData: SpecPull                      *)
(***************************************************************************)

\* allLocalStorageData of an initialSaveDataResponse: none or empty, a key
\* outside the prefix, a data key, the empty key
PullData ==
    {<<>>, <<"x">> :> <<"1">>, (localStoragePrefix \o KeyB) :> JS2,
     <<>> :> <<"1">>}

PullLoads ==
    {[store |-> KeyA :> V1, hasIndex |-> FALSE, flat |-> <<>>],
     [store |-> <<>>, hasIndex |-> FALSE, flat |-> FlatA1],
     [store |-> KeyB :> VStamped, hasIndex |-> TRUE, flat |-> <<>>]}

InitPull ==
    /\ pc = "waiting"
    /\ \E load \in PullLoads : SysInit(load, TRUE)
    /\ CodecOff
    /\ OpenDBOff
    /\ scen = "pull"
    /\ snap = [store |-> <<>>, flat |-> <<>>, cleared |-> FALSE, after |-> <<>>,
               counts |-> <<>>]

NextPull ==
    \/ Boot
    \/ \E data \in PullData, matches \in BOOLEAN : HostInitialResponse(data, matches)
    \/ \E i \in 1..2, k \in Keys : ImportPut(i, k)
    \/ \E i \in 1..2, k \in Keys : ImportVerify(i, k)
    \/ ExportRead(1)
    \/ InitialTimeout
    \/ ReadySignal

\* the page inside a parent frame that sends several messages to
\* responseHandler
SpecPull == InitPull /\ [][NextPull]_vars

(***************************************************************************)
(* Repeated setAllLocalStorageData requests: SpecReplace                   *)
(***************************************************************************)

InitReplace ==
    /\ pc = "waiting"
    /\ \E load \in PullLoads : SysInit(load, TRUE)
    /\ CodecOff
    /\ OpenDBOff
    /\ scen = "replace"
    /\ snap = [store |-> <<>>, flat |-> <<>>, cleared |-> FALSE, after |-> <<>>,
               counts |-> <<>>]

NextReplace ==
    \/ Boot
    \/ \E data \in ReplaceData, has \in BOOLEAN : HostSetAll(data, has)
    \/ \E data \in ReplaceData : \E done \in SUBSET DOMAIN data :
           HostSetAllFail(data, done)
    \/ \E i \in 1..(MaxReplaceMsgs + 1), k \in Keys : ImportPut(i, k)
    \/ \E i \in 1..(MaxReplaceMsgs + 1), k \in Keys : ImportVerify(i, k)
    \/ \E i \in 1..(MaxReplaceMsgs + 1), k \in Keys : ImportPutFail(i, k)
    \/ ExportRead(1)
    \/ InitialTimeout
    \/ ReadySignal
    \/ Reload

\* the page inside a parent frame that sends several setAllLocalStorageData
\* requests
SpecReplace == InitReplace /\ [][NextReplace]_vars

(***************************************************************************)
(* exportToLocalStorage called again: SpecRerun                            *)
(***************************************************************************)

\* stores: a value and a Blob, two Blobs, a record under the timestamp
\* index, a value over the size limit, a value that does not serialize, none
RerunStores ==
    {[store |-> (KeyA :> V1) @@ (KeyB :> VBlob), hasIndex |-> FALSE],
     [store |-> (KeyA :> VBlob) @@ (KeyB :> Blob(<<8>>, OctetStream)),
      hasIndex |-> FALSE],
     [store |-> (KeyA :> VBlob) @@ (KeyB :> VStamped), hasIndex |-> TRUE],
     [store |-> (KeyA :> VBig) @@ (KeyB :> VBlob), hasIndex |-> FALSE],
     [store |-> (KeyA :> BigInt(1)) @@ (KeyB :> VBlob), hasIndex |-> FALSE],
     [store |-> <<>>, hasIndex |-> FALSE]}

\* localStorage before the first call: empty, or holding an older export of
\* a and a key of another origin
RerunFlats == {<<>>, FlatA1 @@ (<<"x">> :> <<"1">>)}

InitRerun ==
    /\ pc = "scenario"
    /\ \E s \in RerunStores, f \in RerunFlats :
          /\ SysInit([store |-> s.store, hasIndex |-> s.hasIndex, flat |-> f], FALSE)
          /\ snap = [flat |-> f, after |-> <<>>, counts |-> <<>>,
                     interrupted |-> FALSE]
    /\ scen = "rerun"
    /\ CodecOff
    /\ OpenDBOff

\* exportToLocalStorage() is called while no call is in flight
RerunExport ==
    /\ pc = "scenario"
    /\ scen = "rerun"
    /\ exports = <<>>
    /\ Len(snap.counts) < MaxReruns
    /\ scen' = "rerunning"
    /\ exports' = StartExport(exports, "scenario")
    /\ UNCHANGED <<pc, isInIframe, store, hasIndex, flat, lastSyncedData, failedSend,
                   imports, exportTimer, notifyTimer, hostListener, initListener,
                   initTimeout, readySignal, reload, loads, outbox, hostMsgs,
                   uncaught, appWrites, atBoot, requested, faults, lastExport,
                   exportPair, captures, game, codecVars, dbVars, snap>>

\* the call has resolved: the caller sees successCount
RerunResolved ==
    /\ pc = "scenario"
    /\ scen = "rerunning"
    /\ exports = <<>>
    /\ scen' = "rerun"
    /\ snap' = [snap EXCEPT !.counts = Append(@, lastExport.count),
                            !.after = IF snap.counts = <<>> THEN flat ELSE @]
    /\ UNCHANGED <<pc, isInIframe, store, hasIndex, flat, lastSyncedData, failedSend,
                   exports, imports, exportTimer, notifyTimer, hostListener,
                   initListener, initTimeout, readySignal, reload, loads, outbox,
                   hostMsgs, uncaught, appWrites, atBoot, requested, faults,
                   lastExport, exportPair, captures, game, codecVars, dbVars>>

\* the document is unloaded while the call waits for a FileReader: the
\* callbacks still pending never run, what was written stays in localStorage
RerunInterrupt ==
    /\ pc = "scenario"
    /\ scen = "rerunning"
    /\ exports # <<>>
    /\ exports[1].phase = "encode"
    /\ ~snap.interrupted
    /\ scen' = "rerun"
    /\ exports' = <<>>
    /\ snap' = [snap EXCEPT !.interrupted = TRUE]
    /\ UNCHANGED <<pc, isInIframe, store, hasIndex, flat, lastSyncedData, failedSend,
                   imports, exportTimer, notifyTimer, hostListener, initListener,
                   initTimeout, readySignal, reload, loads, outbox, hostMsgs,
                   uncaught, appWrites, atBoot, requested, faults, lastExport,
                   exportPair, captures, game, codecVars, dbVars>>

NextRerun ==
    \/ RerunExport
    \/ ExportRead(1)
    \/ \E k \in Keys : ExportBlobDone(1, k)
    \/ RerunResolved
    \/ RerunInterrupt

\* exportToLocalStorage called repeatedly on a store nobody writes
SpecRerun == InitRerun /\ [][NextRerun]_vars

(***************************************************************************)
(* requestSnapshot requests: SpecSnapshot                                  *)
(***************************************************************************)

InitSnapshot ==
    /\ pc = "waiting"
    /\ \E load \in PullLoads : SysInit(load, TRUE)
    /\ CodecOff
    /\ OpenDBOff
    /\ scen = "snapshot"
    /\ snap = [store |-> <<>>, flat |-> <<>>, cleared |-> FALSE, after |-> <<>>,
               counts |-> <<>>]

NextSnapshot ==
    \/ Boot
    \/ \E defined \in BOOLEAN : HostSnapshot(defined)
    \/ HostSnapshotThrows
    \/ \E id \in 1..MaxSnapshotMsgs, ok \in BOOLEAN : CaptureDone(id, ok)
    \/ \E has \in BOOLEAN : HostSetAll((localStoragePrefix \o KeyA) :> JS2, has)
    \/ \E i \in 1..2, k \in Keys : ImportPut(i, k)
    \/ \E i \in 1..2, k \in Keys : ImportVerify(i, k)
    \/ ExportRead(1)
    \/ NotifyTick
    \/ InitialTimeout
    \/ ReadySignal
    \/ Reload

\* the page inside a parent frame that asks for snapshots
SpecSnapshot == InitSnapshot /\ [][NextSnapshot]_vars

(***************************************************************************)
(* The game-start sequence of the earlier variant: SpecStart               *)
(***************************************************************************)

DeltaruneLoaded ==
    <<"d", "e", "l", "t", "a", "r", "u", "n", "e", "_", "l", "o", "a", "d", "e", "d">>

TrueChars == <<"t", "r", "u", "e">>

\* the console.log calls that carry START_MESSAGE
StartLogs == {"log1", "log2"}

\* a faulty _startGameOnce that never returns early
StartSkippedNever(g) == FALSE

\* _startGameOnce returns at once: if (_gameStarted || _startAttempted) return
StartSkipped(g) == g.gameStarted \/ g.startAttempted

\* an async function that awaits loaderReadyPromise and then calls
\* _startGameOnce is started for the trigger
StartLater(g, trigger) ==
    [g EXCEPT !.fired = @ \cup {trigger}, !.pending = @ \cup {trigger}]

InitStart ==
    /\ pc = "start"
    /\ \E inIframe \in BOOLEAN, f \in {<<>>, DeltaruneLoaded :> TrueChars, FlatA1} :
          SysInit([store |-> <<>>, hasIndex |-> FALSE, flat |-> f], inIframe)
    /\ CodecOff
    /\ OpenDBOff
    /\ scen = "start"
    /\ snap = [store |-> <<>>, flat |-> <<>>, cleared |-> FALSE, after |-> <<>>,
               counts |-> <<>>]

\* the wrapper of console.log sees a string that includes START_MESSAGE:
\* unless _gameStarted, it starts the async function
ConsoleLog(n) ==
    /\ pc = "start"
    /\ n \notin game.fired
    /\ game' = IF game.gameStarted THEN [game EXCEPT !.fired = @ \cup {n}]
               ELSE StartLater(game, n)
    /\ UNCHANGED <<pc, isInIframe, store, hasIndex, flat, lastSyncedData, exports,
                   imports, exportTimer, notifyTimer, hostListener, initListener,
                   initTimeout, readySignal, reload, loads, outbox, hostMsgs,
                   uncaught, appWrites, atBoot, requested, faults, lastExport,
                   failedSend, exportPair, captures, codecVars, dbVars, scenVars>>

\* the import of the initial save data has resolved and its 500 ms timer
\* fires: the async function is started whatever _gameStarted is
PullCompleted ==
    /\ pc = "start"
    /\ isInIframe
    /\ "pull" \notin game.fired
    /\ game' = StartLater(game, "pull")
    /\ UNCHANGED <<pc, isInIframe, store, hasIndex, flat, lastSyncedData, exports,
                   imports, exportTimer, notifyTimer, hostListener, initListener,
                   initTimeout, readySignal, reload, loads, outbox, hostMsgs,
                   uncaught, appWrites, atBoot, requested, faults, lastExport,
                   failedSend, exportPair, captures, codecVars, dbVars, scenVars>>

\* the fallback timer fires: unless _gameStarted, it starts the async
\* function
FallbackTimeout ==
    /\ pc = "start"
    /\ "fallback" \notin game.fired
    /\ game' = IF game.gameStarted THEN [game EXCEPT !.fired = @ \cup {"fallback"}]
               ELSE StartLater(game, "fallback")
    /\ UNCHANGED <<pc, isInIframe, store, hasIndex, flat, lastSyncedData, exports,
                   imports, exportTimer, notifyTimer, hostListener, initListener,
                   initTimeout, readySignal, reload, loads, outbox, hostMsgs,
                   uncaught, appWrites, atBoot, requested, faults, lastExport,
                   failedSend, exportPair, captures, codecVars, dbVars, scenVars>>

\* the async function of a trigger goes on after loaderReadyPromise
\* (settled either way, or absent) and calls _startGameOnce.  works: one of
\* the start functions returns a true value; relog: the game's start
\* function logs START_MESSAGE while the body runs, when _gameStarted is
\* still false
StartGameOnce(trigger, works, relog) ==
    /\ pc = "start"
    /\ trigger \in game.pending
    /\ LET g == [game EXCEPT !.pending = @ \ {trigger}]
       IN  IF StartSkipped(game)
           THEN /\ game' = g
                /\ flat' = flat
           ELSE /\ game' = [g EXCEPT !.startAttempted = TRUE,
                                     !.gameStarted = TRUE,
                                     !.started = works,
                                     !.bodies = @ + 1,
                                     !.fired = IF relog THEN @ \cup {"relog"} ELSE @,
                                     !.pending = IF relog /\ "relog" \notin g.fired
                                                 THEN @ \cup {"relog"} ELSE @]
                /\ flat' = IF DeltaruneLoaded \in DOMAIN flat THEN flat
                           ELSE SetItem(flat, DeltaruneLoaded, TrueChars)
    /\ UNCHANGED <<pc, isInIframe, store, hasIndex, lastSyncedData, exports,
                   imports, exportTimer, notifyTimer, hostListener, initListener,
                   initTimeout, readySignal, reload, loads, outbox, hostMsgs,
                   uncaught, appWrites, atBoot, requested, faults, lastExport,
                   failedSend, exportPair, captures, codecVars, dbVars, scenVars>>

StartTriggers == StartLogs \cup {"pull", "fallback", "relog"}

NextStart ==
    \/ \E n \in StartLogs : ConsoleLog(n)
    \/ PullCompleted
    \/ FallbackTimeout
    \/ \E trigger \in StartTriggers, works \in BOOLEAN, relog \in BOOLEAN :
          StartGameOnce(trigger, works, relog)

\* the triggers of the game start in any order
SpecStart == InitStart /\ [][NextStart]_vars

(***************************************************************************)
(* The codec on its own: SpecCodec                                         *)
(***************************************************************************)

Bytes == {0, 255}

\* the byte strings of length n over Bytes
RECURSIVE ByteSeqsOf(_)
ByteSeqsOf(n) ==
    IF n = 0 THEN {<<>>}
    ELSE {Append(b, x) : b \in ByteSeqsOf(n - 1), x \in Bytes}

ByteSeqs == UNION {ByteSeqsOf(n) : n \in 0..MaxBytes}

\* the views of every kind over a buffer: every offset and length that the
\* element size allows
Views ==
    {View(kind, buf, off, len) :
        kind \in ViewKinds, buf \in ByteSeqs, off \in 0..MaxBytes, len \in 0..MaxBytes}

ValidViews ==
    {v \in Views :
        /\ v.off + v.len <= Len(v.buf)
        /\ v.off % ElementSize(v.kind) = 0
        /\ v.len % ElementSize(v.kind) = 0}

Leaves ==
    {Null, Undefined, Bool(TRUE), Num(1), Str(<<"a">>), Str(TagAB),
     DateOf(Num(1000)), ArrayBuffer(<<255>>), Blob(<<7>>, OctetStream)}

Primitives ==
    {Bool(FALSE), Num(0), Num(-1), Num(12), NaN, Str(<<>>),
     Str(<<Quote>>), Str(NullMark)}

Containers ==
    {Array(<<>>), Object(<<>>)}
    \cup {Array(<<x>>) : x \in Leaves}
    \cup {Array(<<x, y>>) : x \in {Null, Num(1)}, y \in Leaves}
    \cup {Object(<<"k">> :> x) : x \in Leaves}
    \cup {Object(<<"k">> :> Array(<<x>>)) : x \in Leaves}
    \cup {Array(<<Object(<<"k">> :> x)>>) : x \in Leaves}

\* the structured values of the supported categories
CodecInputs ==
    Leaves \cup Primitives \cup Containers \cup ValidViews
    \cup {ArrayBuffer(b) : b \in ByteSeqs}
    \cup {Blob(b, OctetStream) : b \in ByteSeqs}
    \cup {Blob(<<7>>, <<"a", "/", "b">>), DateOf(Num(0))}

Tags == {TagJS, TagDATE, TagAB, TagTA, TagBL, TagOBJ}

\* strings found in localStorage that no serializeForLocalStorage wrote
RawStrings ==
    {<<>>, <<"x">>, <<"1">>, <<":">>, <<"J", "S">>, <<"j", "s", ":", "1">>,
     <<"A", "B">>, <<"x", "A", "B", ":">>, <<" ", "J", "S", ":", "1">>,
     <<"D", "A", "T", "E">>, <<"O", "B", "J">>, <<"X", "Y", ":", "1">>,
     <<"B", "L">>, <<"T", "A">>, <<"t", "a", ":", "x">>}

\* strings with a tag and a malformed body: text that is not JSON after JS:
\* and OBJ:, text that is not base64 after AB:, TA: and BL:
MalformedStrings ==
    {TagJS \o <<"{">>, TagJS \o <<"x">>, TagOBJ \o <<"[">>,
     TagOBJ \o <<"[", Quote, "J", "S", ":", "{", Quote, "]">>,
     TagAB \o <<"!">>, TagAB \o <<"A">>, TagTA \o <<"!">>,
     TagTA \o Uint8Array \o <<":", "!">>, TagBL \o <<"!">>}

InitCodec ==
    /\ pc = "codec"
    /\ OpenDBOff
    /\ SysInit([store |-> <<>>, hasIndex |-> FALSE, flat |-> <<>>], FALSE)
    /\ ScenarioOff
    /\ cOut = Null
    /\ \/ cPc = "value" /\ cIn \in CodecInputs /\ cMid = Null
       \/ cPc = "raw" /\ cIn = Null /\ cMid \in {Str(s) : s \in RawStrings \cup MalformedStrings}

\* serializeForLocalStorage(cIn) settles
Encode ==
    /\ pc = "codec"
    /\ cPc = "value"
    /\ cMid' = serializeForLocalStorage(cIn)
    /\ cPc' = IF IsThrow(cMid') THEN "rejected" ELSE "encoded"
    /\ UNCHANGED <<cIn, cOut, sysVars, scenVars, dbVars>>

\* deserializeFromLocalStorage(cMid) returns or throws
Decode ==
    /\ pc = "codec"
    /\ cPc \in {"encoded", "raw"}
    /\ cOut' = deserializeFromLocalStorage(cMid)
    /\ cPc' = IF cPc = "raw" THEN "rawDecoded" ELSE "decoded"
    /\ UNCHANGED <<cIn, cMid, sysVars, scenVars, dbVars>>

NextCodec == Encode \/ Decode

SpecCodec == InitCodec /\ [][NextCodec]_vars

(***************************************************************************)
(* Export, clear the store, import, import again: SpecScenario             *)
(***************************************************************************)

KeyTs == KeyA \o TsSuffix

ScenKeys == Keys \cup {KeyTs}

\* stores whose values all serialize within the limit
ScenStores ==
    {[store |-> <<>>, hasIndex |-> FALSE],
     [store |-> (KeyA :> V1) @@ (KeyB :> DateOf(Num(1000))), hasIndex |-> FALSE],
     [store |-> (KeyA :> V1) @@ (KeyB :> VBlob), hasIndex |-> FALSE],
     [store |-> (KeyA :> Str(<<"x">>)) @@ (KeyB :> Array(<<Null, V2>>)),
      hasIndex |-> FALSE],
     [store |-> KeyA :> ArrayBuffer(<<1, 2, 3>>), hasIndex |-> FALSE],
     [store |-> KeyA :> View(Uint8Array, <<1, 2, 3>>, 0, 3), hasIndex |-> FALSE],
     [store |-> KeyA :> View(Uint8Array, <<1, 2, 3>>, 1, 1), hasIndex |-> FALSE],
     [store |-> KeyA :> NaN, hasIndex |-> FALSE],
     [store |-> KeyB :> VStamped, hasIndex |-> TRUE],
     [store |-> KeyTs :> V1, hasIndex |-> FALSE]}

InitScenario ==
    /\ pc = "scenario"
    /\ \E s \in ScenStores :
          /\ SysInit([store |-> s.store, hasIndex |-> s.hasIndex, flat |-> <<>>],
                     FALSE)
          /\ snap = [store |-> s.store, flat |-> <<>>, cleared |-> FALSE,
                     after |-> <<>>, counts |-> <<>>]
    /\ scen = "start"
    /\ CodecOff
    /\ OpenDBOff

\* exportToLocalStorage() is called
ScenExport ==
    /\ pc = "scenario"
    /\ scen = "start"
    /\ scen' = "export"
    /\ exports' = StartExport(exports, "scenario")
    /\ UNCHANGED <<pc, isInIframe, store, hasIndex, flat, lastSyncedData, failedSend, imports,
                   exportTimer, notifyTimer, hostListener, initListener,
                   initTimeout, readySignal, reload, loads, outbox, hostMsgs,
                   uncaught, appWrites, atBoot, requested, faults, lastExport,
                   exportPair, captures, game, codecVars, dbVars, snap>>

\* the export has resolved; the object store is cleared, or left as it is
ScenClear(clear) ==
    /\ pc = "scenario"
    /\ scen = "export"
    /\ exports = <<>>
    /\ scen' = "clear"
    /\ store' = IF clear THEN <<>> ELSE store
    /\ snap' = [snap EXCEPT !.flat = flat, !.cleared = clear]
    /\ UNCHANGED <<pc, isInIframe, hasIndex, flat, lastSyncedData, failedSend, exports, imports,
                   exportTimer, notifyTimer, hostListener, initListener,
                   initTimeout, readySignal, reload, loads, outbox, hostMsgs,
                   uncaught, appWrites, atBoot, requested, faults, lastExport,
                   exportPair, captures, game, codecVars, dbVars>>

\* importFromLocalStorage() is called, the first time after the clear, the
\* second time when the first call has settled
ScenImport ==
    /\ pc = "scenario"
    /\ scen \in {"clear", "import1"}
    /\ imports = <<>>
    /\ scen' = IF scen = "clear" THEN "import1" ELSE "import2"
    /\ LET run == ImportRun("scenario", 0, flat)
       IN  /\ imports' = IF ImportSettled(run) THEN imports ELSE <<run>>
           /\ snap' = [snap EXCEPT
                          !.after = IF scen = "import1" THEN store ELSE @,
                          !.counts = IF ImportSettled(run)
                                     THEN Append(@, run.count) ELSE @]
    /\ UNCHANGED <<pc, isInIframe, store, hasIndex, flat, lastSyncedData, failedSend, exports,
                   exportTimer, notifyTimer, hostListener, initListener,
                   initTimeout, readySignal, reload, loads, outbox, hostMsgs,
                   uncaught, appWrites, atBoot, requested, faults, lastExport,
                   exportPair, captures, game, codecVars, dbVars>>

NextScenario ==
    \/ ScenExport
    \/ ExportRead(1)
    \/ \E k \in ScenKeys : ExportBlobDone(1, k)
    \/ \E clear \in BOOLEAN : ScenClear(clear)
    \/ ScenImport
    \/ \E k \in ScenKeys : ImportPut(1, k)
    \/ \E k \in ScenKeys : ImportVerify(1, k)
    \/ \E k \in ScenKeys : ImportPutFail(1, k)

SpecScenario == InitScenario /\ [][NextScenario]_vars

(***************************************************************************)
(* importFromLocalStorage on its own: SpecImport                           *)
(***************************************************************************)

\* what localStorage can hold when importFromLocalStorage is called: what
\* exports wrote (with and without companion entries) and what the parent
\* frame's data brought (other keys, a companion entry alone, a value that
\* does not deserialize)
ImportFlats ==
    {<<>>,
     FlatA1,
     FlatA1 @@ ((localStoragePrefix \o KeyA \o TsSuffix) :> <<"5">>),
     (localStoragePrefix \o KeyA \o TsSuffix) :> <<"5">>,
     ((localStoragePrefix \o KeyA) :> (TagJS \o <<"{">>)) @@
         ((localStoragePrefix \o KeyB) :> JS2),
     (<<"x">> :> <<"1">>) @@ ((localStoragePrefix \o KeyA) :> JS2),
     ((localStoragePrefix \o KeyA) :> JS2) @@ ((localStoragePrefix \o KeyB) :> JS1) @@
         ((localStoragePrefix \o KeyB \o TsSuffix) :> <<"5">>)}

\* the object store when importFromLocalStorage is called
ImportStores == {<<>>, KeyA :> V1, (KeyA :> V2) @@ (KeyTs :> V1)}

InitImport ==
    /\ pc = "scenario"
    /\ \E st \in ImportStores, f \in ImportFlats :
          /\ SysInit([store |-> st, hasIndex |-> FALSE, flat |-> f], FALSE)
          /\ snap = [store |-> st, flat |-> f, cleared |-> FALSE,
                     after |-> <<>>, counts |-> <<>>]
    /\ scen = "clear"
    /\ CodecOff
    /\ OpenDBOff

NextImport ==
    \/ ScenImport
    \/ \E k \in ScenKeys : ImportPut(1, k)
    \/ \E k \in ScenKeys : ImportVerify(1, k)
    \/ \E k \in ScenKeys : ImportPutFail(1, k)

SpecImport == InitImport /\ [][NextImport]_vars

(***************************************************************************)
(* Properties                                                              *)
(***************************************************************************)

\* the bytes a view shows: len bytes of its buffer from offset off
ViewBytes(v) == SubSeq(v.buf, v.off + 1, v.off + v.len)

\* value equality: same category, same view kind, same bytes, same epoch,
\* same keys and elements
RECURSIVE ValueEqual(_, _)
ValueEqual(a, b) ==
    /\ a.t = b.t
    /\ CASE a.t = "view" -> a.kind = b.kind /\ ViewBytes(a) = ViewBytes(b)
         [] a.t = "Blob" -> a.bytes = b.bytes
         [] a.t = "Array" ->
               /\ Len(a.elems) = Len(b.elems)
               /\ \A i \in 1..Len(a.elems) : ValueEqual(a.elems[i], b.elems[i])
         [] a.t = "Object" ->
               /\ DOMAIN a.fields = DOMAIN b.fields
               /\ \A k \in DOMAIN a.fields : ValueEqual(a.fields[k], b.fields[k])
         [] OTHER -> a = b

StoreEqual(s1, s2) ==
    /\ DOMAIN s1 = DOMAIN s2
    /\ \A k \in DOMAIN s1 : ValueEqual(s1[k], s2[k])

\* C1: for every value v of a supported category,
\* deserializeFromLocalStorage(serializeForLocalStorage(v)) is value-equal to
\* v; serializing v does not reject.
C1_RoundTrip ==
    /\ cPc # "rejected"
    /\ cPc = "decoded" => ValueEqual(cIn, cOut)

\* C2: when localStorage held an older value for key k than the object store
\* at page load, then after IndexedDBSync.initialize has run its import and
\* its export (and the game wrote nothing meanwhile and no request failed),
\* the object store still holds the newer value of k and localStorage holds
\* its serialization.
C2_NoStaleResurrection ==
    (exportTimer /\ appWrites = 0 /\ faults = 0) =>
        \A k \in DOMAIN atBoot.store :
            LET localKey == localStoragePrefix \o k
                newer == serializeForLocalStorage(atBoot.store[k]).v
            IN  (localKey \in DOMAIN atBoot.flat /\ atBoot.flat[localKey] # newer)
                => /\ k \in DOMAIN store
                   /\ store[k] = atBoot.store[k]
                   /\ localKey \in DOMAIN flat
                   /\ flat[localKey] = newer

\* C3: in the state in which a loadDataResponse with success = true is
\* posted for a setAllLocalStorageData request carrying data D, localStorage
\* holds exactly the entries of D.
C3_FlatIsRequestedData ==
    \A i \in 1..Len(outbox) :
        (outbox[i].type = "loadDataResponse" /\ outbox[i].success)
        => flat = requested[outbox[i].messageId].data

\* C4 as stated: two consecutive exportToLocalStorage runs with no write to
\* the object store between them post at most one saveDataChanged message.
C4_AtMostOneNotification ==
    (exportPair.valid /\ exportPair.storeQuiet) => exportPair.sends <= 1

\* C4, amended: two consecutive exportToLocalStorage runs with no write to
\* the object store between them, and with no write to localStorage between
\* them other than their own (none by a message of the parent frame, none by
\* another export call), post at most one saveDataChanged message.
C4_AtMostOneNotificationWhenQuiet ==
    (exportPair.valid /\ exportPair.storeQuiet /\ exportPair.flatQuiet)
    => exportPair.sends <= 1

\* two consecutive runs, nothing written between them, one message posted
C4_Witness ==
    /\ exportPair.valid
    /\ exportPair.storeQuiet
    /\ exportPair.flatQuiet
    /\ exportPair.sends = 1

\* C5: a matching initialSaveDataResponse that arrives after the 5000 ms
\* timer has fired is ignored: the step in which responseHandler handles it
\* (the one step in which the handler is removed while the page runs) changes
\* neither localStorage nor the object store and starts no import.
C5_LateResponseIgnored ==
    [][(initTimeout = "fired" /\ initListener /\ ~initListener' /\ pc' = "running")
       => (flat' = flat /\ store' = store /\ imports' = imports)]_vars

\* C6: requestInitialSaveData and the callback of its 5000 ms timer leave
\* localStorage and the object store as they were and raise no error, and
\* when the timer is armed or fires the message listener is registered, the
\* ready signal is scheduled or sent and the notify timer is running.
C6_TimeoutHarmless ==
    [][(initTimeout' # initTimeout /\ initTimeout' \in {"armed", "fired"})
       => /\ flat' = flat
          /\ store' = store
          /\ uncaught' = uncaught
          /\ imports' = imports \/ pc = "waiting"
          /\ hostListener'
          /\ notifyTimer'
          /\ readySignal' # "none"]_vars

\* the timer has fired, and the rest of WigdosXPSync.initialize is in place
C6_Witness ==
    /\ initTimeout = "fired"
    /\ hostListener
    /\ notifyTimer
    /\ readySignal = "sent"

\* C7: from an empty localStorage and a store whose values serialize within
\* the limit, exportToLocalStorage writes prefix+k = serialization of v for
\* every entry (k, v); after the store is cleared, importFromLocalStorage
\* (when it resolves) leaves the store equal to the original.
C7_ExportThenImportRestores ==
    /\ (scen = "export" /\ exports = <<>>) =>
          \A k \in DOMAIN store :
              /\ localStoragePrefix \o k \in DOMAIN flat
              /\ flat[localStoragePrefix \o k] = serializeForLocalStorage(store[k]).v
    /\ (scen = "import1" /\ imports = <<>> /\ snap.cleared
        /\ snap.counts # <<>> /\ snap.counts[1] >= 0)
       => StoreEqual(store, snap.store)

\* C8: two calls of importFromLocalStorage in sequence against an unchanged
\* localStorage, both resolving, whatever the store held before the first:
\* the store after the second equals the store after the first, and both
\* resolve with the same count.
C8_ImportIdempotent ==
    (/\ scen = "import2"
     /\ imports = <<>>
     /\ Len(snap.counts) = 2
     /\ snap.counts[1] >= 0
     /\ snap.counts[2] >= 0)
    => /\ store = snap.after
       /\ snap.counts[1] = snap.counts[2]

\* both calls have resolved, each with two entries imported
C8_Witness ==
    /\ scen = "import2"
    /\ imports = <<>>
    /\ snap.counts = <<2, 2>>
    /\ Cardinality(DOMAIN store) = 2

C10_UnknownReturnedRaw ==
    (/\ cPc = "rawDecoded"
     /\ \A tag \in Tags :
           Len(cMid.v) < Len(tag) \/ SubSeq(cMid.v, 1, Len(tag)) # tag)
    => cOut = cMid

\* a string with a tag inside it, not at its start, has been deserialized
C10_Witness ==
    /\ cPc = "rawDecoded"
    /\ cMid = Str(<<"x", "A", "B", ":">>)
    /\ cOut = cMid

\* C11: deserializeFromLocalStorage throws on no string, and a string with a
\* tag and a malformed body is returned as it is.
C11_MalformedReturnedRaw ==
    cPc = "rawDecoded" =>
        /\ cOut # Throw
        /\ cMid.v \in MalformedStrings => cOut = cMid

\* C12: an export cycle whose success count is 0 (an empty store, or every
\* entry skipped) sends no saveDataChanged message.
C12_NoNotificationWhenNothingExported ==
    (lastExport.valid /\ lastExport.resolved /\ lastExport.count = 0)
        => lastExport.sent = 0

\* the step is the end of the i-th export call in flight: it resolves
Finishing(i) ==
    /\ i \in 1..Len(exports)
    /\ exports' = RemoveAt(FlatWritten(exports, flat'), i)
    /\ lastExport'.valid
    /\ lastExport'.resolved

\* the snapshot of an export call that ends in this step
CycleData(c) == IF c.phase = "open" THEN store ELSE c.data

CycleTimestamps(c) ==
    IF c.phase = "open" THEN Timestamps(store, hasIndex) ELSE c.timestamps

\* localStorage f holds every entry the export call wrote, and each
\* saveDataChanged message of msgs carries every data entry it wrote
HoldsCycleWrites(c, f, msgs) ==
    \A k \in DOMAIN CycleData(c) :
        LET key == localStoragePrefix \o k
            serialized == serializeForLocalStorage(CycleData(c)[k])
        IN  (~IsThrow(serialized) /\ Len(serialized.v) <= MAX_LOCALSTORAGE_BYTES) =>
                /\ key \in DOMAIN f /\ f[key] = serialized.v
                /\ k \in DOMAIN CycleTimestamps(c) =>
                      /\ (key \o TsSuffix) \in DOMAIN f
                      /\ f[key \o TsSuffix] = NumberToChars(CycleTimestamps(c)[k])
                /\ \A n \in 1..Len(msgs) :
                      (msgs[n].type = "saveDataChanged" /\ ~EndsWith(key, TsSuffix)) =>
                          /\ key \in DOMAIN msgs[n].data
                          /\ msgs[n].data[key] = serialized.v

\* C13 as stated: when an export call ends, localStorage holds every entry the
\* call wrote (data and companion), and the saveDataChanged message it posts
\* carries every data entry the call wrote.
C13_PayloadHoldsCycleWrites ==
    [][\A i \in 1..MaxExports :
          Finishing(i) => HoldsCycleWrites(exports[i], flat', outbox')]_vars

\* C13: the same for an export call during which nothing else wrote to
\* localStorage (no data of the parent frame, no other export call).
C13_PayloadHoldsCycleWritesWhenQuiet ==
    [][\A i \in 1..MaxExports :
          (Finishing(i) /\ exports[i].flatQuiet) =>
              HoldsCycleWrites(exports[i], flat', outbox')]_vars

\* an export call that read a Blob has ended and posted its message, with
\* the entries it wrote in localStorage
C13_Witness ==
    /\ lastExport.valid /\ lastExport.resolved /\ lastExport.flatQuiet
    /\ lastExport.count = 2
    /\ lastExport.sent = 1
    /\ outbox # <<>>
    /\ outbox[1].type = "saveDataChanged"
    /\ (localStoragePrefix \o KeyB) \in DOMAIN outbox[1].data

\* C14: every setAllLocalStorageData request is eventually answered with a
\* loadDataResponse that carries its messageId.
C14_EverySetAllAnswered ==
    \A id \in 1..MaxHostMsgs :
        (id \in DOMAIN requested) ~>
            (\E n \in 1..Len(outbox) :
                /\ outbox[n].type = "loadDataResponse"
                /\ outbox[n].messageId = id)

\* the step handles a getAllLocalStorageData request: a message of the
\* parent frame that is not a setAllLocalStorageData request
GetAllHandled == hostMsgs' = hostMsgs + 1 /\ requested' = requested

C16_StandaloneInert ==
    ~isInIframe =>
        /\ outbox = <<>>
        /\ ~hostListener
        /\ ~initListener
        /\ ~notifyTimer
        /\ initTimeout = "none"
        /\ readySignal = "none"
        /\ reload = "none"
        /\ lastSyncedData = <<>>

\* a standalone page whose export cycle has run and written localStorage
C16_Witness ==
    /\ ~isInIframe
    /\ pc = "running"
    /\ lastExport.valid /\ lastExport.resolved
    /\ lastExport.count > 0
    /\ flat # atBoot.flat

\* every companion key of f has its data entry in f
CompanionsHaveSiblings(f) ==
    \A key \in DOMAIN f :
        (StartsWith(key, localStoragePrefix) /\ EndsWith(key, TsSuffix)
            /\ Len(key) >= Len(localStoragePrefix) + Len(TsSuffix))
        => SubSeq(key, 1, Len(key) - Len(TsSuffix)) \in DOMAIN f

FirstImportResolved ==
    /\ pc = "scenario"
    /\ scen = "import1"
    /\ imports = <<>>
    /\ Len(snap.counts) = 1
    /\ snap.counts[1] >= 0

\* the keys of localStorage under the prefix that are not companion keys
DataKeys(f) ==
    {key \in DOMAIN f :
        /\ Len(key) >= Len(localStoragePrefix)
        /\ SubSeq(key, 1, Len(localStoragePrefix)) = localStoragePrefix
        /\ ~EndsWith(key, TsSuffix)}

StripPrefix(key) == SubSeq(key, Len(localStoragePrefix) + 1, Len(key))

\* no entry of the object store was created or written from a companion key
NothingFromCompanions ==
    \A k \in DOMAIN store :
        (k \notin DOMAIN snap.store \/ store[k] # snap.store[k])
            => (localStoragePrefix \o k) \in DataKeys(flat)

\* the keys of the set were imported under the key without the prefix, and
\* they are what the call counted
ImportedExactly(keys) ==
    /\ snap.counts[1] = Cardinality(keys)
    /\ \A key \in keys :
          /\ StripPrefix(key) \in DOMAIN store
          /\ store[StripPrefix(key)] = deserializeFromLocalStorage(Str(flat[key]))

\* C18: an import writes no entry from a companion key, does not
\* count one, and imports every other key under the prefix under the key
\* without the prefix.
C18_CompanionsSkippedOthersImported ==
    FirstImportResolved =>
        /\ NothingFromCompanions
        /\ ImportedExactly(DataKeys(flat))

\* the keys whose entry the step created or changed
Written(before, after) ==
    {k \in DOMAIN after : k \notin DOMAIN before \/ after[k] # before[k]}

\* the step handles a setAllLocalStorageData request
SetAllHandled == requested' # requested

\* the contents of localStorage that the imports in flight enumerated: as
\* the page found it when it started, or as a request replaced it
FlatsEnumerated ==
    {atBoot.flat} \cup {requested[id].data : id \in DOMAIN requested}

\* C19: an export writes only the keys prefix+k and prefix+k+'::ts' for keys
\* k of the object store and leaves the object store alone; an import writes
\* only keys k with prefix+k in localStorage and leaves localStorage alone;
\* no entry of the object store is ever removed, and an entry of
\* localStorage only by a setAllLocalStorageData replace.
C19_NoKeysOriginatedOrDestroyed ==
    [][/\ DOMAIN store \subseteq DOMAIN store'
       /\ ~SetAllHandled =>
             /\ DOMAIN flat \subseteq DOMAIN flat'
             /\ \A key \in Written(flat, flat') :
                   \E k \in DOMAIN store :
                       key \in {localStoragePrefix \o k,
                                localStoragePrefix \o k \o TsSuffix}
             /\ flat' # flat => store' = store
             /\ store' # store => flat' = flat
       /\ \A k \in Written(store, store') :
             \E f \in FlatsEnumerated : (localStoragePrefix \o k) \in DOMAIN f]_vars

\* an import has written the object store and an export has then written
\* localStorage, after a replace
C19_Witness ==
    /\ requested # <<>>
    /\ store # atBoot.store
    /\ lastExport.valid /\ lastExport.resolved
    /\ lastExport.count > 0

\* the export call of IndexedDBSync.initialize has started in this page
\* lifetime: it is in flight, or an export call has ended
StartupExportStarted ==
    \/ \E i \in 1..Len(exports) : exports[i].origin = "startup"
    \/ lastExport.valid

\* C20: once the page has initialized, the import of initialize is followed
\* by its export: the export call starts, unless the page reloads first.
C20_StartupExportRuns ==
    (pc = "running") ~> (pc # "running" \/ StartupExportStarted)

\* C21: while the page runs, no step clears a timer that is running: not
\* the step in which an export call rejects, nor the step in which
\* notifySaveDataChanged catches an error.
C21_TimersSurviveFailures ==
    [][(pc = "running" /\ pc' = "running") =>
          /\ exportTimer => exportTimer'
          /\ notifyTimer => notifyTimer']_vars

\* an export call started by the export timer has rejected; both timers are
\* still running
C21_Witness ==
    /\ pc = "running"
    /\ exportTimer /\ notifyTimer
    /\ lastExport.valid /\ ~lastExport.resolved

\* C22: a payload whose send threw is posted by a later notify cycle.
C22_FailedSendRetried == (failedSend # <<>>) ~> (failedSend = <<>>)

\* an openDB call has a request outstanding
OpenPending == openCall.phase \in {"request", "upgradeReq"}

\* an openDB call has resolved or rejected
OpenSettled == openCall.phase \in {"resolved", "rejected"}

\* what one step of an openDB call may do
OpenDBStepOk ==
    /\ openCall'.upgrades <= 1
    /\ (openCall'.phase = "upgradeReq" /\ openCall.phase # "upgradeReq") =>
          /\ openCall.phase = "request"
          /\ ~idb'.hasStore
          /\ openCall'.target = idb'.version + 1
          /\ openCall'.upgrades = 1
    /\ (openCall.phase = "upgradeReq" /\ openCall' # openCall) =>
          /\ openCall'.phase \in {"resolved", "rejected"}
          /\ openCall'.upgrades = openCall.upgrades
          /\ (openCall'.phase = "rejected") => (idb' = idb)
          /\ (openCall'.phase = "resolved" /\ ~idb.hasStore) =>
                (idb'.version = openCall.target /\ hasIndex')
    /\ (openCall.phase = "request" /\ idb.hasStore /\ openCall' # openCall
          /\ openCall'.phase # "rejected") =>
          /\ openCall'.phase = "resolved"
          /\ openCall'.upgrades = 0
          /\ idb' = idb
    /\ (openCall'.phase = "resolved") => idb'.hasStore

\* C23: an openDB call asks for at most one upgrade: without FILE_DATA it
\* opens once at version + 1, and it resolves only with a database that has
\* FILE_DATA (with the timestamp index when the upgrade created the store);
\* when the upgrade open fails the call rejects and asks for nothing more;
\* with FILE_DATA present it resolves with the database unchanged. Every
\* call whose requests settle resolves or rejects.
C23_OneUpgradeAttempt ==
    /\ [][OpenDBStepOk]_vars
    /\ OpenPending ~> OpenSettled

\* a call found no FILE_DATA, asked for one upgrade and resolved with the
\* store and its index created
C23_Witness ==
    /\ openCall.phase = "resolved"
    /\ openCall.upgrades = 1
    /\ idb.version = openCall.target
    /\ idb.hasStore /\ hasIndex

\* C24: the loop of waitForIndexedDB ends: WigdosXPSync.initialize is called
\* after finitely many openDB calls.
C24_OpenSequenceEnds == <>(pc = "running")


\* the keys of a snapshot whose serialization throws
Throwing(data) == {k \in DOMAIN data : IsThrow(serializeForLocalStorage(data[k]))}

\* C25: an export call whose snapshot holds an entry that does not serialize
\* resolves; it leaves that entry's key in localStorage as it was, writes
\* every entry that serializes within the limit, and resolves with the number
\* of entries it wrote: the entries of the snapshot less the skipped ones.
C25_FailedEntrySkipped ==
    [][/\ lastExport'.valid => lastExport'.resolved
       /\ \A i \in 1..MaxExports :
            (Finishing(i) /\ Throwing(CycleData(exports[i])) # {}) =>
                LET data == CycleData(exports[i])
                    skipped == Throwing(data) \cup OverLimit(data)
                IN  /\ lastExport'.count = Cardinality(DOMAIN data \ skipped)
                    /\ \A k \in DOMAIN data \ skipped :
                          /\ (localStoragePrefix \o k) \in DOMAIN flat'
                          /\ flat'[localStoragePrefix \o k] =
                                serializeForLocalStorage(data[k]).v
                    /\ \A k \in Throwing(data) :
                          LET key == localStoragePrefix \o k
                          IN  /\ key \in DOMAIN flat' <=> key \in DOMAIN flat
                              /\ key \in DOMAIN flat => flat'[key] = flat[key]]_vars

\* an export call has skipped the BigInt under a and written b: it resolved
\* with 1
C25_Witness ==
    /\ lastExport.valid /\ lastExport.resolved
    /\ lastExport.keys = {KeyA, KeyB}
    /\ lastExport.count = 1
    /\ (localStoragePrefix \o KeyB) \in DOMAIN flat
    /\ (localStoragePrefix \o KeyA) \notin DOMAIN flat


\* the data keys of localStorage whose string does not deserialize
Undecodable(f) ==
    {key \in DataKeys(f) : IsThrow(deserializeFromLocalStorage(Str(f[key])))}

\* C26: an import over a localStorage with an entry that does not deserialize
\* resolves when no write fails; it leaves the store entry of that key as it
\* was, puts every other data entry under the prefix, and resolves with the
\* number of entries it put.
C26_UndecodableSkipped ==
    (/\ pc = "scenario" /\ scen = "import1" /\ imports = <<>>
     /\ Len(snap.counts) = 1
     /\ Undecodable(flat) # {})
    => /\ faults = 0 => snap.counts[1] >= 0
       /\ snap.counts[1] >= 0 =>
            /\ snap.counts[1] = Cardinality(DataKeys(flat) \ Undecodable(flat))
            /\ \A key \in DataKeys(flat) \ Undecodable(flat) :
                  /\ StripPrefix(key) \in DOMAIN store
                  /\ store[StripPrefix(key)] =
                        deserializeFromLocalStorage(Str(flat[key]))
            /\ \A key \in Undecodable(flat) :
                  LET k == StripPrefix(key)
                  IN  /\ k \in DOMAIN store <=> k \in DOMAIN snap.store
                      /\ k \in DOMAIN store => store[k] = snap.store[k]

\* an import has skipped the entry of a, which does not deserialize, kept
\* the store's a and put b: it resolved with 1
C26_Witness ==
    /\ FirstImportResolved
    /\ Undecodable(flat) = {localStoragePrefix \o KeyA}
    /\ snap.counts[1] = 1
    /\ KeyA \in DOMAIN store /\ store[KeyA] = V1
    /\ KeyB \in DOMAIN store /\ store[KeyB] = V2


\* C27: an import during which a put failed still resolves, with the number
\* of entries it put.
C27_FailedWriteDoesNotReject ==
    (/\ pc = "scenario" /\ scen = "import1" /\ imports = <<>>
     /\ Len(snap.counts) = 1
     /\ faults > 0)
    => /\ snap.counts[1] >= 0
       /\ snap.counts[1] <= Cardinality(DataKeys(flat))


\* a setAllLocalStorageData request was handled and its import resolved: the
\* success response was posted and the reload scheduled
ReplaceSucceeded(id) ==
    /\ id \in DOMAIN requested
    /\ requested[id].has
    /\ (reload = "scheduled" \/ loads > 1)

\* C28: a key that localStorage held since the page initialized and that a
\* successful replace removed is not in localStorage afterwards, when neither
\* the game nor the parent frame has written since.
C28_RemovedKeyStaysRemoved ==
    \A id \in 1..MaxHostMsgs :
        (ReplaceSucceeded(id) /\ appWrites = 0 /\ hostMsgs = id) =>
            \A key \in DOMAIN atBoot.flat \ DOMAIN requested[id].data :
                key \notin DOMAIN flat


\* the getInitialSaveData request is pending: no response was handled and the
\* 5000 ms timer has not fired
InitialRequestPending == initListener /\ initTimeout = "armed"

\* C29: while the getInitialSaveData request is pending, no task posts a
\* saveDataChanged message.
C29_NoPushBeforeInitialPull ==
    InitialRequestPending =>
        \A n \in 1..Len(outbox) : outbox[n].type # "saveDataChanged"


\* the getAllFromIndexedDB of the i-th export call in flight has not settled
ReadPending(i) ==
    /\ pc \in {"running", "scenario"}
    /\ i \in 1..Len(exports)
    /\ exports[i].phase = "open"

\* a step that settles the getAllFromIndexedDB of an export call
ReadSettles == \E i \in 1..MaxExports : ExportRead(i) \/ ExportReadFail(i)

\* a FileReader of an export call is done
BlobStep == \E i \in 1..MaxExports, k \in Keys : ExportBlobDone(i, k)

\* the page opened on its own, where the load event is handled, every
\* request to IndexedDB and every FileReader settles, and the export timer
\* keeps firing once it is set
SpecStandaloneLive ==
    /\ SpecStandalone
    /\ WF_vars(Boot)
    /\ WF_vars(ExportTick)
    /\ WF_vars(ImportStep)
    /\ WF_vars(BlobStep)
    /\ ([]<>(~ReadPending(1)) \/ []<><<ReadSettles>>_vars)

\* localStorage holds the serialization of every entry of the object store
\* that serializes within the limit
Converged ==
    \A k \in DOMAIN store :
        LET serialized == serializeForLocalStorage(store[k])
        IN  (~IsThrow(serialized) /\ Len(serialized.v) <= MAX_LOCALSTORAGE_BYTES) =>
                /\ (localStoragePrefix \o k) \in DOMAIN flat
                /\ flat[localStoragePrefix \o k] = serialized.v

\* C30: once the game has stopped writing, localStorage comes to hold the
\* serialization of every entry of the object store that fits the limit, and
\* keeps holding it.
C30_Converges == <>[]Converged


\* C31: when the export call that started first ends last, after the call
\* that started later has read a newer value of a key and ended, localStorage
\* then holds the serialization of the newer value.
C31_LaterReadWins ==
    [][\A k \in Keys :
          (/\ Len(exports) = 1 /\ exports' = <<>>
           /\ exports[1].phase = "encode"
           /\ lastExport.valid /\ lastExport.resolved /\ lastExport.storeQuiet
           /\ k \in lastExport.keys
           /\ k \in DOMAIN exports[1].data
           /\ exports[1].data[k] # store[k]
           /\ ~IsThrow(serializeForLocalStorage(store[k]))
           /\ Len(serializeForLocalStorage(store[k]).v) <= MAX_LOCALSTORAGE_BYTES)
          => /\ (localStoragePrefix \o k) \in DOMAIN flat'
             /\ flat'[localStoragePrefix \o k] = serializeForLocalStorage(store[k]).v]_vars


\* C32: once the page has initialized, the export timer is eventually set,
\* also when the import or the export of initialize has rejected.
C32_TimerStartsDespiteFailure == (pc = "running") ~> exportTimer


\* the step is responseHandler receiving a message that does not match, or
\* receiving any message once a matching one was handled
UnmatchedResponseStep ==
    \E data \in PullData, matches \in BOOLEAN :
        /\ HostInitialResponse(data, matches)
        /\ (~matches \/ ~initListener)

\* C33: a message to responseHandler that does not match, and every message
\* after the first matching one, changes neither localStorage nor the object
\* store and starts no import; a matching message is handled while the
\* handler is registered and removes it.
C33_OnlyFirstMatchActs ==
    [][/\ UnmatchedResponseStep =>
            (flat' = flat /\ store' = store /\ imports' = imports
             /\ initListener' = initListener)
       /\ (hostMsgs' # hostMsgs /\ (flat' # flat \/ imports' # imports)) =>
            (initListener /\ ~initListener')]_vars

\* a matching response was handled and its import ran, and another message
\* reached responseHandler, before it or after it
C33_Witness ==
    /\ pc = "running"
    /\ hostMsgs >= 2
    /\ ~initListener
    /\ imports = <<>>
    /\ (localStoragePrefix \o KeyB) \in DOMAIN flat
    /\ KeyB \in DOMAIN store


\* the payload of the saveDataChanged message posted last in this page:
\* <<>> for none, <<payload>>
LastSent == IF failedSend # <<>> THEN failedSend[1].last ELSE lastSyncedData

\* C34: while the page runs, no saveDataChanged message carries the payload
\* of the message posted before it, and a step that finds in localStorage the
\* payload posted last leaves lastSyncedData as it was.
C34_NoEqualConsecutivePayloads ==
    [][(pc = "running" /\ pc' = "running") =>
          /\ \A n \in 1..Len(outbox') :
                outbox'[n].type = "saveDataChanged" => LastSent # <<outbox'[n].data>>
          /\ (LastSent = <<NotifyPayload(flat')>> /\ lastSyncedData = LastSent) =>
                lastSyncedData' = lastSyncedData]_vars



(***************************************************************************)
(* C35: the payload of saveDataChanged                                     *)
(***************************************************************************)

\* the saveDataChanged messages posted by the step that led to this state
ChangesSent == {n \in 1..Len(outbox) : outbox[n].type = "saveDataChanged"}

\* the localStorage entries under the keys ks
EntriesOf(ks) == [k \in ks |-> flat[k]]

Answers(id, success) ==
    \E n \in 1..Len(outbox') :
        /\ outbox'[n].type = "loadDataResponse"
        /\ outbox'[n].messageId = id
        /\ outbox'[n].success = success

\* the step requests the reload of the page
ReloadRequested == reload # "scheduled" /\ reload' = "scheduled"

\* the import that the handler of request id started is still running
Importing(id) ==
    \E i \in 1..Len(imports) : imports[i].origin = "setAll" /\ imports[i].id = id

\* C36: a setAllLocalStorageData request is handled in this order:
\* localStorage is cleared and holds exactly the entries given; then the
\* import runs; the success response is posted in the step in which the
\* import of this request ends, with no put of it left to do, and the same
\* step requests the reload.  A reload is requested only by a step that
\* posts a success response; a step that posts a failure response starts no
\* import and requests no reload, and no success response follows for that
\* request.
C36_ReplaceOrder ==
    [][/\ \A id \in DOMAIN requested' \ DOMAIN requested :
              (requested'[id].has /\ ~Answers(id, FALSE)) =>
                  /\ flat' = requested'[id].data
                  /\ Answers(id, TRUE) \/ Importing(id)'
       /\ \A id \in DOMAIN requested' :
              Answers(id, TRUE) =>
                  /\ requested'[id].has
                  /\ ~Importing(id)'
                  /\ Importing(id) \/ id \notin DOMAIN requested
                  /\ \A i \in 1..Len(imports) :
                         (imports[i].origin = "setAll" /\ imports[i].id = id)
                             => DOMAIN imports[i].todo = {}
                  /\ reload' = "scheduled"
       /\ ReloadRequested => \E id \in DOMAIN requested' : Answers(id, TRUE)
       /\ \A id \in DOMAIN requested' :
              Answers(id, FALSE) =>
                  /\ ~ReloadRequested
                  /\ ~Importing(id)'
                  /\ imports' = imports
       /\ \A id \in DOMAIN requested :
              ~Importing(id) => ~Answers(id, TRUE)]_vars

\* a request failed and a later one succeeded: its success response is out
\* and the reload is requested
C36_Witness ==
    /\ reload = "scheduled"
    /\ faults = 1
    /\ Cardinality(DOMAIN requested) = 2
    /\ \E n \in 1..Len(outbox) :
           outbox[n].type = "loadDataResponse" /\ outbox[n].success


(***************************************************************************)
(* C37: the effect of the initial response                                 *)
(***************************************************************************)

\* the call of importFromLocalStorage that the step started, if it is still
\* in flight after the step
StartedImport ==
    IF Len(imports') = Len(imports) + 1 THEN <<imports'[Len(imports')]>> ELSE <<>>

\* C37: when responseHandler handles a matching initialSaveDataResponse
\* before the timeout, with non-empty data D: localStorage holds every key of
\* D with D's value, every other key keeps its value and none is removed,
\* and the import enumerates localStorage as it is after the writes (with
\* nothing to put, no call stays in flight); with empty or missing data
\* localStorage, the object store and the imports in flight stay as they are.
C37_InitialResponseMerges ==
    [][\A data \in PullData :
          (initListener /\ initTimeout = "armed" /\ HostInitialResponse(data, TRUE)) =>
              IF DOMAIN data # {}
              THEN /\ \A k \in DOMAIN data : k \in DOMAIN flat' /\ flat'[k] = data[k]
                   /\ \A k \in DOMAIN flat \ DOMAIN data :
                          k \in DOMAIN flat' /\ flat'[k] = flat[k]
                   /\ DOMAIN flat' = DOMAIN flat \cup DOMAIN data
                   /\ store' = store
                   /\ IF StartedImport # <<>>
                      THEN /\ StartedImport[1].origin = "initial"
                           /\ StartedImport[1].todo = ImportTodo(flat')
                      ELSE imports' = imports /\ DOMAIN ImportTodo(flat') = {}
              ELSE flat' = flat /\ store' = store /\ imports' = imports]_vars

\* the response arrived in time with the key x: localStorage holds it next
\* to the entry it held before, and the import of both is in flight
C37_Witness ==
    /\ initTimeout = "cleared"
    /\ <<"x">> \in DOMAIN flat
    /\ (localStoragePrefix \o KeyA) \in DOMAIN flat
    /\ \E i \in 1..Len(imports) :
           imports[i].origin = "initial" /\ KeyA \in DOMAIN imports[i].todo


(***************************************************************************)
(* C38: exportToLocalStorage called again                                  *)
(***************************************************************************)

\* the keys of the object store whose value serializes within the limit
Exportable ==
    {k \in DOMAIN store :
        /\ ~IsThrow(serializeForLocalStorage(store[k]))
        /\ Len(serializeForLocalStorage(store[k]).v) <= MAX_LOCALSTORAGE_BYTES}

\* C38: with the object store unchanged, whenever a call of
\* exportToLocalStorage has resolved, after a call that resolved before it or
\* after a call that was cut off between its writes, localStorage is what
\* one complete call makes of the localStorage the first call found: the
\* entry and the companion entry of every exportable key, every other key as
\* it was; it equals what the first resolved call left, and every call
\* resolves with the same count.
C38_ExportIdempotent ==
    (scen = "rerun" /\ snap.counts # <<>>) =>
        LET stamps == Timestamps(store, hasIndex)
            data == {localStoragePrefix \o k : k \in Exportable}
            meta == {localStoragePrefix \o k \o TsSuffix :
                        k \in Exportable \cap DOMAIN stamps}
        IN  /\ DOMAIN flat = DOMAIN snap.flat \cup data \cup meta
            /\ \A k \in Exportable :
                   flat[localStoragePrefix \o k] = serializeForLocalStorage(store[k]).v
            /\ \A k \in Exportable \cap DOMAIN stamps :
                   flat[localStoragePrefix \o k \o TsSuffix] = NumberToChars(stamps[k])
            /\ \A key \in DOMAIN snap.flat \ (data \cup meta) : flat[key] = snap.flat[key]
            /\ flat = snap.after
            /\ \A n \in 1..Len(snap.counts) :
                   snap.counts[n] = snap.counts[1] /\ snap.counts[n] = Cardinality(Exportable)

\* a call was cut off between its writes and two calls resolved, each
\* writing two entries over an older export
C38_Witness ==
    /\ scen = "rerun"
    /\ snap.interrupted
    /\ snap.counts = <<2, 2>>
    /\ snap.flat # <<>>
    /\ flat # snap.flat


(***************************************************************************)
(* C39: requestSnapshot                                                    *)
(***************************************************************************)

\* the snapshotResponse messages the step posts for request id
SnapshotAnswers(id) ==
    {n \in 1..Len(outbox') :
        outbox'[n].type = "snapshotResponse" /\ outbox'[n].messageId = id}

\* C39: every requestSnapshot request is answered by exactly one
\* snapshotResponse with its messageId, carrying an image or null: a request
\* is never given up without a response, a response is posted only for a
\* request not answered before and it is the only one of its step; and the
\* steps of the handler leave localStorage, the object store and
\* lastSyncedData as they were.
C39_SnapshotAnsweredOnce ==
    [][/\ \A id \in DOMAIN captures' : captures'[id] \in {"pending", "answered"}
       /\ \A id \in 1..MaxSnapshotMsgs :
              SnapshotAnswers(id) # {} =>
                  /\ Cardinality(SnapshotAnswers(id)) = 1
                  /\ id \in DOMAIN captures => captures[id] = "pending"
                  /\ captures'[id] = "answered"
                  /\ \A n \in SnapshotAnswers(id) : outbox'[n].dataUrl \in {"image", "null"}
       /\ \A id \in DOMAIN captures' :
              (captures'[id] = "answered" /\ (id \notin DOMAIN captures
                                                \/ captures[id] # "answered"))
                  => SnapshotAnswers(id) # {}
       /\ (captures' # captures /\ pc' = pc) =>
              /\ flat' = flat
              /\ store' = store
              /\ lastSyncedData' = lastSyncedData]_vars


(***************************************************************************)
(* C40: the game starts once                                               *)
(***************************************************************************)

=============================================================================
